---- MODULE Spec2Model ----
(***************************************************************************)
(* A model of the gameboy emulation core: the processor's step              *)
(* (Cpu::execute), its interrupt service, the system bus and the            *)
(* peripherals that raise interrupts (ppu, timer, joypad).                  *)
(*                                                                          *)
(* Numbers are written in decimal; the hexadecimal value of the source is   *)
(* given in the comment next to each.                                       *)
(***************************************************************************)
EXTENDS Integers, Sequences, FiniteSets, TLC

VARIABLES
    cpu,      \* Cpu: registers PC, SP, A, IME and the halting / halt_bug / ime_delay flags
    bus,      \* SystemBus: interrupt_flag (IF) and interrupt_enable (IE)
    ram,      \* InternalRam: data (work ram) and high_data (high ram), sparse
    io,       \* IoPorts: the passive i/o registers, sparse
    cart,     \* Cartridge (MBC3): ram_enabled, rtc_mapped, rtc active register, ram
    joypad,   \* Joypad: data, select, interrupt_flag
    timer,    \* Timer: div, tima, tma, tac, interrupt_flag
    ppu,      \* Ppu: lcdc, stat, ly, lyc, mode, mode_counter, interrupt_flag, ...
    rom,      \* the cartridge's rom image (an input, never written on MBC3)
    status,   \* "ok" while the driver keeps stepping, "err" after step() returned
              \* an error, "panic" after the process aborted
    steps,    \* the number of step() calls made so far
    keys,     \* the number of key events delivered so far
    obs       \* what the last operation did (a history variable)

vars == <<cpu, bus, ram, io, cart, joypad, timer, ppu, rom, status, steps, keys, obs>>

-----------------------------------------------------------------------------
(* Bounds of the model.                                                     *)

\* The number of step() calls the driver makes in a run.
MaxSteps == 5

\* The number of key events (presses and releases) the driver delivers in a run.
MaxKeys == 1

\* The rom image repeats a block of ProgLen bytes (the header bytes aside).
ProgLen == 3

\* The length of the blocks of the programs that move the stack out of the ram.
StackLen == 4

\* The frames the ppu is followed for.
MaxFrames == 2

\* The cycles the timer is followed for.
MaxTimerCycles == 1100

\* The reads and writes the bus is followed for.
MaxBusOps == 3

\* The calls the joypad is followed for, and the cycles ticked between them.
MaxJoypadOps == 3
MaxJoypadCycles == 8

\* The register writes, pushes and pops the register file is followed for.
MaxRegOps == 3

-----------------------------------------------------------------------------
(* Bit arithmetic on u8 / u16 values.                                       *)

RECURSIVE BitAnd(_, _, _)
BitAnd(x, y, n) ==
    IF n = 0 THEN 0
    ELSE (x % 2) * (y % 2) + 2 * BitAnd(x \div 2, y \div 2, n - 1)

And8(x, y) == BitAnd(x, y, 8)
And16(x, y) == BitAnd(x, y, 16)
Or8(x, y) == x + y - And8(x, y)
Not8(x) == 255 - x
Bit(x, i) == (x \div (2 ^ i)) % 2

\* u16::wrapping_add / wrapping_sub
WrapAdd16(x, y) == (x + y) % 65536
WrapSub16(x, y) == (x + 65536 - y) % 65536

InRange(a, lo, hi) == lo <= a /\ a <= hi

-----------------------------------------------------------------------------
(* The memory map (bus/mod.rs consts, and the peripherals' own consts).     *)

MMAP_ROM_BANK0    == [start |-> 0,     end |-> 16383]   \* 0x0000 .. 0x3FFF
MMAP_ROM_BANK_SW  == [start |-> 16384, end |-> 32767]   \* 0x4000 .. 0x7FFF
MMAP_VIDEO_RAM    == [start |-> 32768, end |-> 40959]   \* 0x8000 .. 0x9FFF
MMAP_RAM_BANK_SW  == [start |-> 40960, end |-> 49151]   \* 0xA000 .. 0xBFFF
MMAP_RAM_INTERNAL == [start |-> 49152, end |-> 57343]   \* 0xC000 .. 0xDFFF
MMAP_RAM_ECHO     == [start |-> 57344, end |-> 65023]   \* 0xE000 .. 0xFDFF
MMAP_SPRITE_OAM   == [start |-> 65024, end |-> 65183]   \* 0xFE00 .. 0xFE9F
MMAP_IO_PORTS     == [start |-> 65280, end |-> 65407]   \* 0xFF00 .. 0xFF7F
MMAP_RAM_HIGH     == [start |-> 65408, end |-> 65534]   \* 0xFF80 .. 0xFFFE
MMAP_IO_TIMER     == [start |-> 65284, end |-> 65287]   \* 0xFF04 .. 0xFF07
MMAP_IO_DISPLAY   == [start |-> 65344, end |-> 65355]   \* 0xFF40 .. 0xFF4B
MMAP_IO_PALETTES  == [start |-> 65384, end |-> 65387]   \* 0xFF68 .. 0xFF6B

RAM_ENABLE_SELECT == [start |-> 0,     end |-> 8191]    \* 0x0000 .. 0x1FFF
ROM_BANK_SELECT   == [start |-> 8192,  end |-> 16383]   \* 0x2000 .. 0x3FFF
RAM_BANK_SELECT   == [start |-> 16384, end |-> 24575]   \* 0x4000 .. 0x5FFF
CLOCK_DATA_LATCH  == [start |-> 24576, end |-> 32767]   \* 0x6000 .. 0x7FFF
RTC_CONTROL_RANGE == [start |-> 8,     end |-> 12]      \* 0x8 ..= 0xC

In(a, range) == InRange(a, range.start, range.end)

IO_P1   == 65280   \* 0xFF00
IO_DIV  == 65284   \* 0xFF04
IO_TIMA == 65285   \* 0xFF05
IO_TMA  == 65286   \* 0xFF06
IO_TAC  == 65287   \* 0xFF07
IO_IF   == 65295   \* 0xFF0F
IO_LCDC == 65344   \* 0xFF40
IO_STAT == 65345   \* 0xFF41
IO_SCY  == 65346   \* 0xFF42
IO_SCX  == 65347   \* 0xFF43
IO_LY   == 65348   \* 0xFF44
IO_LYC  == 65349   \* 0xFF45
IO_DMA  == 65350   \* 0xFF46
IO_BGP  == 65351   \* 0xFF47
IO_OBP0 == 65352   \* 0xFF48
IO_OBP1 == 65353   \* 0xFF49
IO_WY   == 65354   \* 0xFF4A
IO_WX   == 65355   \* 0xFF4B
IO_IE   == 65535   \* 0xFFFF

\* The cartridge header of an MBC3 image with two rom banks and 8KB of ram.
ROM_CARTRIDGE_TYPE == 327   \* 0x0147
ROM_SIZE == 328             \* 0x0148
RAM_SIZE == 329             \* 0x0149

-----------------------------------------------------------------------------
(* The rom image.  Bytes outside the header repeat the block `rom`; the     *)
(* header names an MBC3 cartridge (cartridge.rs tests::empty_rom).          *)

\* nop, halt, reti, ldh (n),A, di, ei and rst 38h; 0xFF is the operand of
\* ldh that names the register IE as well.
Alphabet == {0, 118, 217, 224, 243, 251, 255}

RomByte(image, a) ==
    CASE a = ROM_CARTRIDGE_TYPE -> 19   \* 0x13: ROM+MBC3+RAM+Battery
      [] a = ROM_SIZE -> 0              \* two banks
      [] a = RAM_SIZE -> 2              \* 0x2000 bytes of ram
      [] OTHER -> image[(a % Len(image)) + 1]

-----------------------------------------------------------------------------
(* The machine: the aggregate a step works on.  `res` is the Result of the  *)
(* call in progress ("ok", "err" for Err(GameboyError), "panic" for an      *)
(* abort, "unmodelled" for an access or opcode outside this model), `t`     *)
(* the trace of the call (fetches made, bus writes made, and whether an     *)
(* integer overflowed where a debug build aborts; the cycles counted so far, *)
(* the vector of the interrupt service routine entered (0: none), the       *)
(* opcode decoded (-1: none), the bits the peripherals raised in the tick,  *)
(* and `irq`, the registers as handle_interrupts left them).                *)

NoService ==
    [pc |-> 0, sp |-> 0, iflag |-> 0, ime |-> FALSE, halting |-> FALSE,
     lo |-> -1, hi |-> -1, cycles |-> 0, writes |-> 0]

Machine ==
    [cpu |-> cpu, bus |-> bus, ram |-> ram, io |-> io, cart |-> cart,
     joypad |-> joypad, timer |-> timer, ppu |-> ppu, rom |-> rom,
     res |-> "ok",
     t |-> [fetches |-> <<>>, writes |-> 0, ovf |-> FALSE, cycles |-> 0,
            isr |-> 0, opcode |-> -1, raised |-> 0,
            irq |-> NoService]]

Fail(m, how) == IF m.res = "ok" THEN [m EXCEPT !.res = how] ELSE m

\* A sparse byte array: the bytes never written hold their initial value.
Load(mem, k, init) == IF k \in DOMAIN mem THEN mem[k] ELSE init
Store(mem, k, v) == (k :> v) @@ mem

\* InternalRam::offset, were the echo not folded onto the work ram.
RamOffsetUnfolded(a) == a - MMAP_RAM_INTERNAL.start

\* InternalRam::offset: the work ram is mapped at two ranges.
RamOffset(a) ==
    IF In(a, MMAP_RAM_INTERNAL) THEN a - MMAP_RAM_INTERNAL.start
    ELSE a - MMAP_RAM_ECHO.start

\* InternalRam::hram_offset
HramOffset(a) == a - MMAP_RAM_HIGH.start

\* The key of a byte of the internal ram in `ram`: the work ram's bytes are
\* keyed by their offset, the high ram's by 8192 + their offset.
RamKey(a) ==
    IF In(a, MMAP_RAM_HIGH) THEN 8192 + HramOffset(a) ELSE RamOffset(a)

\* IoPorts::reset: the boot values of the i/o registers.
IoReset(a) ==
    CASE a = 65296 -> 128   \* NR10 0x80
      [] a = 65297 -> 191   \* NR11 0xBF
      [] a = 65298 -> 243   \* NR12 0xF3
      [] a = 65300 -> 191   \* NR14 0xBF
      [] a = 65302 -> 63    \* NR21 0x3F
      [] a = 65305 -> 191   \* NR24 0xBF
      [] a = 65306 -> 127   \* NR30 0x7F
      [] a = 65307 -> 255   \* NR31 0xFF
      [] a = 65308 -> 159   \* NR32 0x9F
      [] a = 65310 -> 191   \* NR34 0xBF
      [] a = 65312 -> 255   \* NR41 0xFF
      [] a = 65315 -> 191   \* NR44 0xBF
      [] a = 65316 -> 119   \* NR50 0x77
      [] a = 65317 -> 243   \* NR51 0xF3
      [] a = 65318 -> 241   \* NR52 0xF1
      [] OTHER -> 0

\* The Result<u8, GameboyError> of a read: [st, v, ovf].
RdOk(v) == [st |-> "ok", v |-> v, ovf |-> FALSE]
RdErr == [st |-> "err", v |-> 0, ovf |-> FALSE]
RdPanic == [st |-> "panic", v |-> 0, ovf |-> FALSE]
RdUnderflow == [st |-> "err", v |-> 0, ovf |-> TRUE]

\* Joypad::read
JoypadRead(j) ==
    IF And8(j.select, 32) = 0 THEN Or8(j.select, And8(j.data \div 16, 15))
    ELSE IF And8(j.select, 16) = 0 THEN Or8(j.select, And8(j.data, 15))
    ELSE j.select

\* Tac::read
TacRead(tm) == tm.frequency + (IF tm.enable THEN 4 ELSE 0)

\* Stat::read: bit 7 is unused and always returns 1.
StatRead(p) == Or8(Or8(Or8(p.stat_data, p.stat_signal), p.stat_mode), 128)

\* Cartridge::read_mbc3
CartridgeRead(m, a) ==
    CASE In(a, MMAP_ROM_BANK0) -> RdOk(RomByte(m.rom, a))
      [] In(a, MMAP_ROM_BANK_SW) ->
            LET active_bank == IF m.cart.rom_bank = 0 THEN 1 ELSE m.cart.rom_bank
                rom_offset == active_bank * 16384 + (a - MMAP_ROM_BANK_SW.start)
            IN  IF 32768 <= rom_offset THEN RdErr
                ELSE RdOk(RomByte(m.rom, rom_offset))
      [] In(a, MMAP_RAM_BANK_SW) ->
            IF ~m.cart.ram_enabled THEN RdErr
            ELSE IF m.cart.rtc_mapped THEN RdPanic   \* Rtc::read is unimplemented!()
            ELSE IF a # MMAP_RAM_BANK_SW.start
                 \* RAM_BANK_SIZE * ram_bank - mmap_offset underflows: an abort in a
                 \* debug build, an offset beyond the ram (an error) otherwise.
                 THEN RdUnderflow
            ELSE RdOk(Load(m.cart.ram, 0, 0))
      [] OTHER -> RdErr

\* Ppu::read
PpuRead(m, a) ==
    CASE a = IO_LCDC -> RdOk(m.ppu.lcdc)
      [] a = IO_STAT -> RdOk(StatRead(m.ppu))
      [] a = IO_SCY  -> RdOk(m.ppu.scy)
      [] a = IO_SCX  -> RdOk(m.ppu.scx)
      [] a = IO_LY   -> RdOk(m.ppu.ly)
      [] a = IO_LYC  -> RdOk(m.ppu.lyc)
      [] a = IO_BGP  -> RdOk(m.ppu.bgp)
      [] a = IO_OBP0 -> RdOk(m.ppu.obp0)
      [] a = IO_OBP1 -> RdOk(m.ppu.obp1)
      [] a = IO_WY   -> RdOk(m.ppu.wy)
      [] a = IO_WX   -> RdOk(m.ppu.wx)
      [] In(a, MMAP_VIDEO_RAM) ->
            RdOk(Load(m.ppu.vram, a - MMAP_VIDEO_RAM.start, 0))
      [] OTHER -> RdPanic

\* Timer::read
TimerRead(m, a) ==
    CASE a = IO_DIV  -> RdOk(m.timer.div \div 256)
      [] a = IO_TIMA -> RdOk(m.timer.tima)
      [] a = IO_TMA  -> RdOk(m.timer.tma)
      [] a = IO_TAC  -> RdOk(TacRead(m.timer))
      [] OTHER -> RdPanic

\* SystemBus::read: the region of the address (get_region!), then the read of
\* the peripheral that owns it (the arms are tried in the order of the match).
ReadBus(m, a) ==
    CASE In(a, MMAP_ROM_BANK0) \/ In(a, MMAP_ROM_BANK_SW) \/ In(a, MMAP_RAM_BANK_SW) ->
            CartridgeRead(m, a)
      [] In(a, MMAP_RAM_INTERNAL) \/ In(a, MMAP_RAM_ECHO) \/ In(a, MMAP_RAM_HIGH) ->
            RdOk(Load(m.ram, RamKey(a), 0))
      [] In(a, MMAP_IO_TIMER) -> TimerRead(m, a)
      [] a = IO_DMA -> RdOk(0)
      [] a = IO_IF -> RdOk(m.bus.interrupt_flag)
      [] a = IO_IE -> RdOk(m.bus.interrupt_enable)
      [] In(a, MMAP_IO_DISPLAY) \/ In(a, MMAP_IO_PALETTES)
           \/ In(a, MMAP_VIDEO_RAM) \/ In(a, MMAP_SPRITE_OAM) -> PpuRead(m, a)
      [] a = IO_P1 -> RdOk(JoypadRead(m.joypad))
      [] In(a, MMAP_IO_PORTS) -> RdOk(Load(m.io, a, IoReset(a)))
      [] OTHER -> RdErr

-----------------------------------------------------------------------------
(* Bus writes.  Each returns the machine after the write; `res` becomes     *)
(* "err" or "panic" when the write fails.                                   *)

Wrote(m) == [m EXCEPT !.t.writes = @ + 1]

\* Cartridge::write_mbc3, were the ram written whether enabled or not.
CartridgeWriteUnlatched(m, a, v) ==
    CASE In(a, RAM_ENABLE_SELECT) ->
            Wrote([m EXCEPT !.cart.ram_enabled = (And8(v, 10) # 0)])
      [] In(a, ROM_BANK_SELECT) -> Fail(m, "panic")   \* set_rom_bank is unimplemented!()
      [] In(a, RAM_BANK_SELECT) ->
            IF In(v, RTC_CONTROL_RANGE)
            THEN Wrote([m EXCEPT !.cart.rtc_active = v - 8, !.cart.rtc_mapped = TRUE])
            ELSE Fail(m, "panic")                     \* set_ram_bank is unimplemented!()
      [] In(a, CLOCK_DATA_LATCH) -> Fail(m, "panic")  \* Rtc::latch is unimplemented!()
      [] In(a, MMAP_RAM_BANK_SW) ->
            IF m.cart.rtc_mapped THEN Fail(m, "panic")   \* Rtc::write is unimplemented!()
            ELSE IF a # MMAP_RAM_BANK_SW.start
                 THEN Fail([m EXCEPT !.t.ovf = TRUE], "err")
            ELSE Wrote([m EXCEPT !.cart.ram = Store(@, 0, v)])
      [] OTHER -> Fail(m, "err")

\* Cartridge::write_mbc3
CartridgeWrite(m, a, v) ==
    CASE In(a, RAM_ENABLE_SELECT) ->
            Wrote([m EXCEPT !.cart.ram_enabled = (And8(v, 10) # 0)])
      [] In(a, ROM_BANK_SELECT) -> Fail(m, "panic")   \* set_rom_bank is unimplemented!()
      [] In(a, RAM_BANK_SELECT) ->
            IF In(v, RTC_CONTROL_RANGE)
            THEN Wrote([m EXCEPT !.cart.rtc_active = v - 8, !.cart.rtc_mapped = TRUE])
            ELSE Fail(m, "panic")                     \* set_ram_bank is unimplemented!()
      [] In(a, CLOCK_DATA_LATCH) -> Fail(m, "panic")  \* Rtc::latch is unimplemented!()
      [] In(a, MMAP_RAM_BANK_SW) ->
            IF ~m.cart.ram_enabled THEN Fail(m, "err")
            ELSE IF m.cart.rtc_mapped THEN Fail(m, "panic")   \* Rtc::write is unimplemented!()
            ELSE IF a # MMAP_RAM_BANK_SW.start
                 THEN Fail([m EXCEPT !.t.ovf = TRUE], "err")
            ELSE Wrote([m EXCEPT !.cart.ram = Store(@, 0, v)])
      [] OTHER -> Fail(m, "err")

\* Ppu::write
PpuWrite(m, a, v) ==
    CASE a = IO_LCDC -> Wrote([m EXCEPT !.ppu.lcdc = v])
      [] a = IO_STAT -> Wrote([m EXCEPT !.ppu.stat_data = And8(v, 248)])
      [] a = IO_SCY  -> Wrote([m EXCEPT !.ppu.scy = v])
      [] a = IO_SCX  -> Wrote([m EXCEPT !.ppu.scx = v])
      [] a = IO_LYC  -> Wrote([m EXCEPT !.ppu.lyc = v])
      [] a = IO_BGP  -> Wrote([m EXCEPT !.ppu.bgp = v])
      [] a = IO_OBP0 -> Wrote([m EXCEPT !.ppu.obp0 = v])
      [] a = IO_OBP1 -> Wrote([m EXCEPT !.ppu.obp1 = v])
      [] a = IO_WY   -> Wrote([m EXCEPT !.ppu.wy = v])
      [] a = IO_WX   -> Wrote([m EXCEPT !.ppu.wx = v])
      [] In(a, MMAP_VIDEO_RAM) ->
            Wrote([m EXCEPT !.ppu.vram = Store(@, a - MMAP_VIDEO_RAM.start, v)])
      [] OTHER -> Fail(m, "panic")

\* Timer::write
TimerWrite(m, a, v) ==
    CASE a = IO_DIV  -> Wrote([m EXCEPT !.timer.div = 0])
      [] a = IO_TIMA -> Wrote([m EXCEPT !.timer.tima = v])
      [] a = IO_TMA  -> Wrote([m EXCEPT !.timer.tma = v])
      [] a = IO_TAC  ->
            Wrote([m EXCEPT !.timer.enable = (And8(v, 4) # 0),
                            !.timer.frequency = And8(v, 3)])
      [] OTHER -> Fail(m, "panic")

\* The DMA transfer, were the source read one byte further on.
DmaTransferShifted(m, v) ==
    LET source == v * 256
        rd(i) == ReadBus(m, source + i + 1)
        bad == {i \in 0..159 : rd(i).st # "ok"}
        stop == IF bad = {} THEN 160 ELSE CHOOSE i \in bad : \A j \in bad : i <= j
        copied == [i \in 0..(stop - 1) |-> rd(i).v]
        after == [m EXCEPT !.ppu.oam = copied @@ @]
    IN  IF bad = {} THEN Wrote(after) ELSE Fail(after, rd(stop).st)

\* The DMA transfer of SystemBus::write: 160 bytes from value << 8 into the oam,
\* one at a time; a failing read ends the transfer with the bytes copied so far.
DmaTransfer(m, v) ==
    LET source == v * 256
        rd(i) == ReadBus(m, source + i)
        bad == {i \in 0..159 : rd(i).st # "ok"}
        stop == IF bad = {} THEN 160 ELSE CHOOSE i \in bad : \A j \in bad : i <= j
        copied == [i \in 0..(stop - 1) |-> rd(i).v]
        after == [m EXCEPT !.ppu.oam = copied @@ @]
    IN  IF bad = {} THEN Wrote(after) ELSE Fail(after, rd(stop).st)

\* impl Memory for SystemBus: the registers the bus owns.
BusRegisterWrite(m, a, v) ==
    CASE a = IO_DMA -> DmaTransfer(m, v)
      [] a = IO_IF -> Wrote([m EXCEPT !.bus.interrupt_flag = v])
      [] a = IO_IE -> Wrote([m EXCEPT !.bus.interrupt_enable = v])
      [] OTHER -> Fail(m, "panic")

\* impl Memory for IOPorts, write: unimplemented!(), which panics.
IoWrite(m, a, v) == Fail(m, "panic")

\* SystemBus::write, were an address outside every region an abort.
WriteBusAborting(m, a, v) ==
    IF m.res # "ok" THEN m
    ELSE
    CASE In(a, MMAP_ROM_BANK0) \/ In(a, MMAP_ROM_BANK_SW) \/ In(a, MMAP_RAM_BANK_SW) ->
            CartridgeWrite(m, a, v)
      [] In(a, MMAP_RAM_INTERNAL) \/ In(a, MMAP_RAM_ECHO) \/ In(a, MMAP_RAM_HIGH) ->
            Wrote([m EXCEPT !.ram = Store(@, RamKey(a), v)])
      [] In(a, MMAP_IO_TIMER) -> TimerWrite(m, a, v)
      [] a = IO_DMA \/ a = IO_IF \/ a = IO_IE -> BusRegisterWrite(m, a, v)
      [] In(a, MMAP_IO_DISPLAY) \/ In(a, MMAP_IO_PALETTES)
           \/ In(a, MMAP_VIDEO_RAM) \/ In(a, MMAP_SPRITE_OAM) -> PpuWrite(m, a, v)
      [] a = IO_P1 -> Wrote([m EXCEPT !.joypad.select = v])
      [] In(a, MMAP_IO_PORTS) -> IoWrite(m, a, v)
      [] OTHER -> Fail(m, "panic")

\* SystemBus::write (the arms of get_region! are tried in the order of the match).
WriteBus(m, a, v) ==
    IF m.res # "ok" THEN m
    ELSE
    CASE In(a, MMAP_ROM_BANK0) \/ In(a, MMAP_ROM_BANK_SW) \/ In(a, MMAP_RAM_BANK_SW) ->
            CartridgeWrite(m, a, v)
      [] In(a, MMAP_RAM_INTERNAL) \/ In(a, MMAP_RAM_ECHO) \/ In(a, MMAP_RAM_HIGH) ->
            Wrote([m EXCEPT !.ram = Store(@, RamKey(a), v)])
      [] In(a, MMAP_IO_TIMER) -> TimerWrite(m, a, v)
      [] a = IO_DMA \/ a = IO_IF \/ a = IO_IE -> BusRegisterWrite(m, a, v)
      [] In(a, MMAP_IO_DISPLAY) \/ In(a, MMAP_IO_PALETTES)
           \/ In(a, MMAP_VIDEO_RAM) \/ In(a, MMAP_SPRITE_OAM) -> PpuWrite(m, a, v)
      [] a = IO_P1 -> Wrote([m EXCEPT !.joypad.select = v])
      [] In(a, MMAP_IO_PORTS) -> IoWrite(m, a, v)
      [] OTHER -> Fail(m, "err")

-----------------------------------------------------------------------------
(* The processor.                                                           *)

Cycles(m, n) == IF m.res = "ok" THEN [m EXCEPT !.t.cycles = @ + n] ELSE m

\* Cpu::fetch::<u8>: the byte at PC; PC moves forward unless the halt bug
\* holds it once.  `pc + 1` overflows at 0xFFFF.
Fetch8(m) ==
    IF m.res # "ok" THEN m
    ELSE
    LET pc == m.cpu.pc
        r == ReadBus(m, pc)
        seen == [m EXCEPT !.t.ovf = @ \/ r.ovf]
    IN  IF r.st # "ok" THEN Fail(seen, r.st)
        ELSE IF m.cpu.halt_bug
        THEN [seen EXCEPT !.cpu.halt_bug = FALSE,
                  !.t.fetches = Append(@, [addr |-> pc, v |-> r.v, next |-> pc, bug |-> TRUE])]
        ELSE [seen EXCEPT !.cpu.pc = (pc + 1) % 65536,
                  !.t.ovf = @ \/ (pc = 65535),
                  !.t.fetches = Append(@, [addr |-> pc, v |-> r.v,
                                           next |-> (pc + 1) % 65536, bug |-> FALSE])]

\* The value of the last fetch.
Fetched(m) == m.t.fetches[Len(m.t.fetches)].v

PushNNSwapped(m, value) ==
    IF m.res # "ok" THEN m
    ELSE
    LET address == m.cpu.sp
        moved == [m EXCEPT !.cpu.sp = WrapSub16(address, 2)]
        low == WriteBus(moved, WrapSub16(address, 1), value % 256)
    IN  WriteBus(low, WrapSub16(address, 2), (value \div 256) % 256)

\* util::push_nn: SP moves first, then the high byte and the low byte are written.
PushNN(m, value) ==
    IF m.res # "ok" THEN m
    ELSE
    LET address == m.cpu.sp
        moved == [m EXCEPT !.cpu.sp = WrapSub16(address, 2)]
        high == WriteBus(moved, WrapSub16(address, 1), (value \div 256) % 256)
    IN  WriteBus(high, WrapSub16(address, 2), value % 256)

\* util::pop_nn of the register PC.
PopPC(m) ==
    IF m.res # "ok" THEN m
    ELSE
    LET address == m.cpu.sp
        low == ReadBus(m, address)
        high == ReadBus(m, WrapAdd16(address, 1))
    IN  IF low.st # "ok" THEN Fail([m EXCEPT !.t.ovf = @ \/ low.ovf], low.st)
        ELSE IF high.st # "ok" THEN Fail([m EXCEPT !.t.ovf = @ \/ high.ovf], high.st)
        ELSE [m EXCEPT !.cpu.pc = high.v * 256 + low.v,
                       !.cpu.sp = WrapAdd16(address, 2)]

\* enter_interrupt: push PC (16 cycles), disable the interrupts and jump (8).
EnterInterrupt(m, int_vector) ==
    LET pushed == PushNN(m, m.cpu.pc)
    IN  IF pushed.res # "ok" THEN pushed
        ELSE Cycles([pushed EXCEPT !.cpu.ime = FALSE, !.cpu.pc = int_vector], 24)

NextInterruptHighest(mask) ==
    LET set == {i \in 0..4 : Bit(mask, i) = 1}
    IN  IF set = {} THEN -1 ELSE CHOOSE i \in set : \A j \in set : j <= i

\* InterruptIter::next: the lowest of the bits 0..4 set in the mask, if any.
NextInterrupt(mask) ==
    LET set == {i \in 0..4 : Bit(mask, i) = 1}
    IN  IF set = {} THEN -1 ELSE CHOOSE i \in set : \A j \in set : i <= j

\* SystemBus::fetch_interrupt: the interrupt taken leaves the interrupt flag.
FetchInterrupt(m) ==
    LET i == NextInterrupt(m.bus.interrupt_flag)
    IN  IF i = -1 THEN m
        ELSE [m EXCEPT !.bus.interrupt_flag = @ - 2 ^ i]

\* The vectors of Cpu::handle_interrupts.
IsrOf(i) == 64 + 8 * i

HandleInterruptsAnyIme(m) ==
    LET i == NextInterrupt(m.bus.interrupt_flag)
    IN  IF i = -1 THEN m
        ELSE EnterInterrupt(
                 [FetchInterrupt(m) EXCEPT !.cpu.halting = FALSE, !.t.isr = IsrOf(i)],
                 IsrOf(i))

HandleInterruptsKeepHalt(m) ==
    IF ~m.cpu.ime THEN m
    ELSE LET i == NextInterrupt(m.bus.interrupt_flag)
         IN  IF i = -1 THEN m
             ELSE EnterInterrupt(
                      [FetchInterrupt(m) EXCEPT !.cpu.halting = FALSE,
                                                !.t.isr = IsrOf(i)],
                      IsrOf(i))

\* Cpu::handle_interrupts
HandleInterrupts(m) ==
    IF ~m.cpu.ime
    THEN IF m.cpu.halting /\ m.bus.interrupt_flag # 0
         THEN [m EXCEPT !.cpu.halting = FALSE]
         ELSE m
    ELSE LET i == NextInterrupt(m.bus.interrupt_flag)
         IN  IF i = -1 THEN m
             ELSE EnterInterrupt(
                      [FetchInterrupt(m) EXCEPT !.cpu.halting = FALSE,
                                                !.t.isr = IsrOf(i)],
                      IsrOf(i))

-----------------------------------------------------------------------------
(* The instructions of the programs considered.                             *)

\* Cpu::halt
Halt(m) ==
    [m EXCEPT !.cpu.halting = TRUE,
              !.cpu.halt_bug = IF ~m.cpu.ime THEN TRUE ELSE @]

\* Cpu::toggle_ime_delayed
ToggleImeDelayed(m) == [m EXCEPT !.cpu.ime_delay = TRUE]

\* nop
Opcode00(m) == Cycles(m, 4)

\* halt
Opcode76(m) == Cycles(Halt(m), 4)

\* reti
OpcodeD9(m) ==
    LET popped == PopPC(m)
    IN  IF popped.res # "ok" THEN popped
        ELSE Cycles([popped EXCEPT !.cpu.ime = TRUE], 8)

\* ld (n), A
OpcodeE0(m) ==
    LET f == Fetch8(m)
    IN  IF f.res # "ok" THEN f
        ELSE Cycles(WriteBus(f, 65280 + Fetched(f), f.cpu.a), 12)

\* di
OpcodeF3(m) == Cycles([m EXCEPT !.cpu.ime = FALSE], 4)

\* ei
OpcodeFB(m) == Cycles(ToggleImeDelayed(m), 4)

\* rst 38h (util::restart)
OpcodeFF(m) ==
    LET pushed == PushNN(m, m.cpu.pc)
    IN  IF pushed.res # "ok" THEN pushed
        ELSE Cycles([pushed EXCEPT !.cpu.pc = 56], 32)

\* The opcodes without an instruction.
Undefined == {211, 219, 221, 227, 228, 235, 236, 237, 244, 252, 253}

\* Cpu::decode and the call of the handler, for the opcodes of the programs
\* considered.  decode.rs of the tree lists part of the primary table (nop and
\* ldh (n),A among them); the entries of halt, reti, di, ei and rst 38h are
\* those of the specification's table, and lead to the handlers of
\* instructions.rs.
Decode(m, opcode) ==
    CASE opcode = 0 -> Opcode00(m)
      [] opcode = 118 -> Opcode76(m)
      [] opcode = 217 -> OpcodeD9(m)
      [] opcode = 224 -> OpcodeE0(m)
      [] opcode = 243 -> OpcodeF3(m)
      [] opcode = 251 -> OpcodeFB(m)
      [] opcode = 255 -> OpcodeFF(m)
      [] opcode \in Undefined -> Fail(m, "err")
      [] OTHER -> Fail(m, "unmodelled")

\* The opcodes that have an arm in the match of Cpu::decode, 0xCB apart.
Listed ==
    {6, 8, 10, 14, 22, 26, 30, 38, 40, 42, 46, 54, 56, 58, 62, 193, 195,
     206, 209, 229, 234, 245, 254}
    \cup (0..2) \cup (17..18) \cup (32..34) \cup (48..50) \cup (64..117)
    \cup (119..159) \cup (184..191) \cup (197..198) \cup (213..214) \cup
    (224..226) \cup (240..242) \cup (248..250)

\* Cpu::decode_cb: no opcode has an arm yet.
DecodeCb(opcode) == "BadOpcode"

\* What Cpu::decode returns for an opcode, `next` being the Result of the fetch
\* it makes after 0xCB: a handler, or the error.
DecodeResult(opcode, next) ==
    IF opcode \in Listed THEN "handler"
    ELSE IF opcode = 203
    THEN IF next.res # "ok" THEN next.res ELSE DecodeCb(Fetched(next))
    ELSE "BadOpcode"

\* Cpu::execute_single (its countdown is a debugging aid without an effect).
ExecuteSingle(m) ==
    LET f == Fetch8(m)
    IN  IF f.res # "ok" THEN f
        ELSE Decode([f EXCEPT !.t.opcode = Fetched(f)], Fetched(f))

-----------------------------------------------------------------------------
(* The tick of the peripherals.                                             *)

\* Ppu::set_mode, were STAT left as it was.
SetModeKeepingStat(p, mode) == [p EXCEPT !.mode = mode]

\* Ppu::set_mode with Stat::set_mode
SetMode(p, mode) ==
    [p EXCEPT !.mode = mode,
              !.stat_mode = CASE mode = "Hblank" -> 0
                              [] mode = "Vblank" -> 1
                              [] mode = "SearchOam" -> 2
                              [] mode = "RenderLine" -> 3]

\* Ppu::refresh_lyc_signal
RefreshLycSignal(p) ==
    LET signal == IF p.lyc = p.ly THEN 4 ELSE 0
    IN  [p EXCEPT !.stat_signal = signal,
                  !.interrupt_flag =
                      IF signal # 0 /\ And8(p.stat_data, 64) # 0 THEN Or8(@, 2) ELSE @]

PpuProcessWrap153(p, cycles) ==
    IF And8(p.lcdc, 128) = 0 THEN p
    ELSE
    LET counter == p.mode_counter + cycles
        q == [p EXCEPT !.mode_counter = counter]
    IN  CASE p.mode = "SearchOam" ->
                IF counter >= 80
                THEN SetMode([q EXCEPT !.mode_counter = counter - 80], "RenderLine")
                ELSE q
          [] p.mode = "RenderLine" ->
                IF counter >= 172
                THEN LET h == SetMode([q EXCEPT !.mode_counter = counter - 172], "Hblank")
                     IN  IF And8(p.stat_data, 8) # 0
                         THEN [h EXCEPT !.interrupt_flag = Or8(@, 2)]
                         ELSE h
                ELSE q
          [] p.mode = "Hblank" ->
                IF counter >= 204
                THEN LET line == RefreshLycSignal(
                                     [q EXCEPT !.mode_counter = counter - 204,
                                               !.ly = p.ly + 1])
                     IN  IF line.ly = 144
                         THEN LET v == SetMode(line, "Vblank")
                              IN  [v EXCEPT !.interrupt_flag =
                                      IF And8(p.stat_data, 16) # 0
                                      THEN Or8(Or8(@, 1), 2) ELSE Or8(@, 1)]
                         ELSE SetMode(line, "SearchOam")
                ELSE q
          [] p.mode = "Vblank" ->
                IF counter >= 456
                THEN LET line == RefreshLycSignal(
                                     [q EXCEPT !.mode_counter = counter - 456,
                                               !.ly = p.ly + 1])
                     IN  IF line.ly = 153
                         THEN LET top == SetMode(RefreshLycSignal([line EXCEPT !.ly = 0]),
                                                 "SearchOam")
                              IN  IF And8(p.stat_data, 32) # 0
                                  THEN [top EXCEPT !.interrupt_flag = Or8(@, 2)]
                                  ELSE top
                         ELSE line
                ELSE q

\* Ppu::process, were V-Blank raised at the top of the frame as well.
PpuProcessVblankAtTop(p, cycles) ==
    IF And8(p.lcdc, 128) = 0 THEN p
    ELSE
    LET counter == p.mode_counter + cycles
        q == [p EXCEPT !.mode_counter = counter]
    IN  CASE p.mode = "SearchOam" ->
                IF counter >= 80
                THEN SetMode([q EXCEPT !.mode_counter = counter - 80], "RenderLine")
                ELSE q
          [] p.mode = "RenderLine" ->
                IF counter >= 172
                THEN LET h == SetMode([q EXCEPT !.mode_counter = counter - 172], "Hblank")
                     IN  IF And8(p.stat_data, 8) # 0
                         THEN [h EXCEPT !.interrupt_flag = Or8(@, 2)]
                         ELSE h
                ELSE q
          [] p.mode = "Hblank" ->
                IF counter >= 204
                THEN LET line == RefreshLycSignal(
                                     [q EXCEPT !.mode_counter = counter - 204,
                                               !.ly = p.ly + 1])
                     IN  IF line.ly = 144
                         THEN LET v == SetMode(line, "Vblank")
                              IN  [v EXCEPT !.interrupt_flag =
                                      IF And8(p.stat_data, 16) # 0
                                      THEN Or8(Or8(@, 1), 2) ELSE Or8(@, 1)]
                         ELSE SetMode(line, "SearchOam")
                ELSE q
          [] p.mode = "Vblank" ->
                IF counter >= 456
                THEN LET line == RefreshLycSignal(
                                     [q EXCEPT !.mode_counter = counter - 456,
                                               !.ly = p.ly + 1])
                     IN  IF line.ly = 154
                         THEN LET top == SetMode(RefreshLycSignal([line EXCEPT !.ly = 0]),
                                                 "SearchOam")
                              IN  IF And8(p.stat_data, 32) # 0
                                  THEN [top EXCEPT !.interrupt_flag = Or8(Or8(@, 1), 2)]
                                  ELSE [top EXCEPT !.interrupt_flag = Or8(@, 1)]
                         ELSE line
                ELSE q

\* Ppu::process, were the power bit of LCDC not looked at.
PpuProcessUnpowered(p, cycles) ==
    LET counter == p.mode_counter + cycles
        q == [p EXCEPT !.mode_counter = counter]
    IN  CASE p.mode = "SearchOam" ->
                IF counter >= 80
                THEN SetMode([q EXCEPT !.mode_counter = counter - 80], "RenderLine")
                ELSE q
          [] p.mode = "RenderLine" ->
                IF counter >= 172
                THEN LET h == SetMode([q EXCEPT !.mode_counter = counter - 172], "Hblank")
                     IN  IF And8(p.stat_data, 8) # 0
                         THEN [h EXCEPT !.interrupt_flag = Or8(@, 2)]
                         ELSE h
                ELSE q
          [] p.mode = "Hblank" ->
                IF counter >= 204
                THEN LET line == RefreshLycSignal(
                                     [q EXCEPT !.mode_counter = counter - 204,
                                               !.ly = p.ly + 1])
                     IN  IF line.ly = 144
                         THEN LET v == SetMode(line, "Vblank")
                              IN  [v EXCEPT !.interrupt_flag =
                                      IF And8(p.stat_data, 16) # 0
                                      THEN Or8(Or8(@, 1), 2) ELSE Or8(@, 1)]
                         ELSE SetMode(line, "SearchOam")
                ELSE q
          [] p.mode = "Vblank" ->
                IF counter >= 456
                THEN LET line == RefreshLycSignal(
                                     [q EXCEPT !.mode_counter = counter - 456,
                                               !.ly = p.ly + 1])
                     IN  IF line.ly = 154
                         THEN LET top == SetMode(RefreshLycSignal([line EXCEPT !.ly = 0]),
                                                 "SearchOam")
                              IN  IF And8(p.stat_data, 32) # 0
                                  THEN [top EXCEPT !.interrupt_flag = Or8(@, 2)]
                                  ELSE top
                         ELSE line
                ELSE q

\* Ppu::process, were the OAM check left out at the end of V-Blank.
PpuProcessOamUnchecked(p, cycles) ==
    IF And8(p.lcdc, 128) = 0 THEN p
    ELSE
    LET counter == p.mode_counter + cycles
        q == [p EXCEPT !.mode_counter = counter]
    IN  CASE p.mode = "SearchOam" ->
                IF counter >= 80
                THEN SetMode([q EXCEPT !.mode_counter = counter - 80], "RenderLine")
                ELSE q
          [] p.mode = "RenderLine" ->
                IF counter >= 172
                THEN LET h == SetMode([q EXCEPT !.mode_counter = counter - 172], "Hblank")
                     IN  IF And8(p.stat_data, 8) # 0
                         THEN [h EXCEPT !.interrupt_flag = Or8(@, 2)]
                         ELSE h
                ELSE q
          [] p.mode = "Hblank" ->
                IF counter >= 204
                THEN LET line == RefreshLycSignal(
                                     [q EXCEPT !.mode_counter = counter - 204,
                                               !.ly = p.ly + 1])
                     IN  IF line.ly = 144
                         THEN LET v == SetMode(line, "Vblank")
                              IN  [v EXCEPT !.interrupt_flag =
                                      IF And8(p.stat_data, 16) # 0
                                      THEN Or8(Or8(@, 1), 2) ELSE Or8(@, 1)]
                         ELSE SetMode(line, "SearchOam")
                ELSE q
          [] p.mode = "Vblank" ->
                IF counter >= 456
                THEN LET line == RefreshLycSignal(
                                     [q EXCEPT !.mode_counter = counter - 456,
                                               !.ly = p.ly + 1])
                     IN  IF line.ly = 154
                         THEN LET top == SetMode(RefreshLycSignal([line EXCEPT !.ly = 0]),
                                                 "SearchOam")
                              IN  IF FALSE
                                  THEN [top EXCEPT !.interrupt_flag = Or8(@, 2)]
                                  ELSE top
                         ELSE line
                ELSE q

\* Ppu::process.  render_line writes the frame buffer alone, which is not
\* part of this model.
PpuProcess(p, cycles) ==
    IF And8(p.lcdc, 128) = 0 THEN p
    ELSE
    LET counter == p.mode_counter + cycles
        q == [p EXCEPT !.mode_counter = counter]
    IN  CASE p.mode = "SearchOam" ->
                IF counter >= 80
                THEN SetMode([q EXCEPT !.mode_counter = counter - 80], "RenderLine")
                ELSE q
          [] p.mode = "RenderLine" ->
                IF counter >= 172
                THEN LET h == SetMode([q EXCEPT !.mode_counter = counter - 172], "Hblank")
                     IN  IF And8(p.stat_data, 8) # 0
                         THEN [h EXCEPT !.interrupt_flag = Or8(@, 2)]
                         ELSE h
                ELSE q
          [] p.mode = "Hblank" ->
                IF counter >= 204
                THEN LET line == RefreshLycSignal(
                                     [q EXCEPT !.mode_counter = counter - 204,
                                               !.ly = p.ly + 1])
                     IN  IF line.ly = 144
                         THEN LET v == SetMode(line, "Vblank")
                              IN  [v EXCEPT !.interrupt_flag =
                                      IF And8(p.stat_data, 16) # 0
                                      THEN Or8(Or8(@, 1), 2) ELSE Or8(@, 1)]
                         ELSE SetMode(line, "SearchOam")
                ELSE q
          [] p.mode = "Vblank" ->
                IF counter >= 456
                THEN LET line == RefreshLycSignal(
                                     [q EXCEPT !.mode_counter = counter - 456,
                                               !.ly = p.ly + 1])
                     IN  IF line.ly = 154
                         THEN LET top == SetMode(RefreshLycSignal([line EXCEPT !.ly = 0]),
                                                 "SearchOam")
                              IN  IF And8(p.stat_data, 32) # 0
                                  THEN [top EXCEPT !.interrupt_flag = Or8(@, 2)]
                                  ELSE top
                         ELSE line
                ELSE q

\* The bit of DIV that Tac's frequency selects.
DivBit(frequency) ==
    CASE frequency = 0 -> 512 [] frequency = 1 -> 8
      [] frequency = 2 -> 32 [] frequency = 3 -> 128

\* Timer::process
TimerProcess(tm, cycles) ==
    LET new_div == WrapAdd16(tm.div, cycles % 65536)
        div_bit == DivBit(tm.frequency)
        changes == And16(tm.div, div_bit) # And16(new_div, div_bit)
        tima == (tm.tima + 1) % 256
    IN  IF tm.enable /\ changes
        THEN IF tima = 0
             THEN [tm EXCEPT !.div = new_div, !.tima = tm.tma,
                             !.interrupt_flag = Or8(@, 4)]
             ELSE [tm EXCEPT !.div = new_div, !.tima = tima]
        ELSE [tm EXCEPT !.div = new_div]

\* Joypad::process
JoypadProcess(j, cycles) == j

ProcessUnmasked(m, cycles) ==
    LET elapsed == IF cycles > 0 THEN cycles ELSE 4
        p == PpuProcess(m.ppu, elapsed)
        tm == TimerProcess(m.timer, elapsed)
        j == JoypadProcess(m.joypad, elapsed)
        raised == Or8(Or8(p.interrupt_flag, tm.interrupt_flag), j.interrupt_flag)
    IN  [m EXCEPT !.bus.interrupt_flag = Or8(@, raised),
                  !.ppu = [p EXCEPT !.interrupt_flag = 0],
                  !.timer = [tm EXCEPT !.interrupt_flag = 0],
                  !.joypad = [j EXCEPT !.interrupt_flag = 0],
                  !.t.raised = raised]

\* SystemBus::process: the peripherals advance, what they raised joins the
\* interrupt flag, which keeps the enabled bits alone; their masks are cleared.
Process(m, cycles) ==
    LET elapsed == IF cycles > 0 THEN cycles ELSE 4
        p == PpuProcess(m.ppu, elapsed)
        tm == TimerProcess(m.timer, elapsed)
        j == JoypadProcess(m.joypad, elapsed)
        raised == Or8(Or8(p.interrupt_flag, tm.interrupt_flag), j.interrupt_flag)
    IN  [m EXCEPT !.bus.interrupt_flag = And8(Or8(@, raised), m.bus.interrupt_enable),
                  !.ppu = [p EXCEPT !.interrupt_flag = 0],
                  !.timer = [tm EXCEPT !.interrupt_flag = 0],
                  !.joypad = [j EXCEPT !.interrupt_flag = 0],
                  !.t.raised = raised]

-----------------------------------------------------------------------------
(* The step.                                                                *)

\* The registers as the service of the interrupts left them, with the two
\* bytes at the top of the stack (-1 where the read fails).
Serviced(m) ==
    LET lo == ReadBus(m, m.cpu.sp)
        hi == ReadBus(m, WrapAdd16(m.cpu.sp, 1))
    IN  [m EXCEPT !.t.irq =
            [pc |-> m.cpu.pc, sp |-> m.cpu.sp, iflag |-> m.bus.interrupt_flag,
             ime |-> m.cpu.ime, halting |-> m.cpu.halting,
             lo |-> IF lo.st = "ok" THEN lo.v ELSE -1,
             hi |-> IF hi.st = "ok" THEN hi.v ELSE -1,
             cycles |-> m.t.cycles, writes |-> m.t.writes]]

RunWhileHalting(m) ==
    IF m.res # "ok" THEN m ELSE ExecuteSingle(m)

\* Cpu::execute after handle_interrupts: the instruction at PC, or four idle
\* cycles while the processor halts.
RunOrIdle(m) ==
    IF m.res # "ok" THEN m
    ELSE IF ~m.cpu.halting THEN ExecuteSingle(m)
    ELSE Cycles(m, 4)

\* Cpu::execute, "Enable interrupts if needed".
EnableIfDelayed(m) ==
    IF m.res # "ok" THEN m
    ELSE IF m.cpu.ime_delay THEN [m EXCEPT !.cpu.ime = TRUE]
    ELSE m

\* Cpu::execute, "Progress the peripherals".
Progress(m) ==
    IF m.res # "ok" THEN m ELSE Process(m, m.t.cycles)

RunUnlessEntered(m) ==
    IF m.res # "ok" THEN m
    ELSE IF m.t.isr # 0 THEN m
    ELSE RunOrIdle(m)

ExecuteReturningAtDispatch(m) ==
    Progress(EnableIfDelayed(RunUnlessEntered(Serviced(HandleInterrupts(m)))))

ExecuteTickFirst(m) ==
    EnableIfDelayed(RunOrIdle(Serviced(HandleInterrupts(Process(m, 4)))))

\* Cpu::execute: the interrupts, the instruction, the delayed enable, the tick;
\* an error of a stage ends the call.
Execute(m) ==
    Progress(EnableIfDelayed(RunOrIdle(Serviced(HandleInterrupts(m)))))

-----------------------------------------------------------------------------
(* The driver: it builds the machine, calls step() (Cpu::execute) up to     *)
(* MaxSteps times, and presses or releases a key between two calls.         *)

Empty == [k \in {} |-> 0]

\* The keys the driver uses (Key::A).
Keys == {16}

\* CpuState::reset, Timer::reset: what depends on the hardware model.
RegisterA(model) == CASE model = "GB" -> 1 [] model = "GBC" -> 17 [] model = "GBP" -> 255
ResetDiv(model) == CASE model = "GB" -> 43980 [] model = "GBC" -> 7840 [] model = "GBP" -> 7844

\* Cpu::new with CpuState::reset.  The source of the flag IME is not part of
\* the tree; both values are considered.
CpuNew(model, ime) ==
    [pc |-> 256, sp |-> 65534, a |-> RegisterA(model), f |-> 176, ime |-> ime,
     halting |-> FALSE, halt_bug |-> FALSE, ime_delay |-> FALSE]

\* SystemBus::new
BusNew == [interrupt_flag |-> 0, interrupt_enable |-> 0]

\* Cartridge::new
CartridgeNew ==
    [rom_bank |-> 0, ram_bank |-> 0, ram_enabled |-> FALSE, rtc_mapped |-> FALSE,
     rtc_active |-> 0, ram |-> Empty]

\* Joypad::new
JoypadNew == [data |-> 0, select |-> 0, interrupt_flag |-> 0]

\* Timer::new with Timer::reset
TimerNew(model) ==
    [div |-> ResetDiv(model), tima |-> 0, tma |-> 0, enable |-> FALSE,
     frequency |-> 0, interrupt_flag |-> 0]

\* Ppu::new with Ppu::reset
PpuNew ==
    [lcdc |-> 145, stat_data |-> 0, stat_signal |-> 0, stat_mode |-> 2,
     scy |-> 0, scx |-> 0, ly |-> 0, lyc |-> 0, bgp |-> 252, obp0 |-> 255,
     obp1 |-> 255, wy |-> 0, wx |-> 0, mode |-> "SearchOam", mode_counter |-> 0,
     interrupt_flag |-> 0, vram |-> Empty, oam |-> Empty]

\* The same machine later in a run: the program has enabled the five
\* interrupts (IE = 0x1F), the timer (TAC = 5) and the V-Blank source of
\* LCD-STAT (STAT = 0x10) and has requested the serial interrupt (IF = 8);
\* the timer is one increment before its overflow and the ppu at the end of
\* line 143.
TimerLate(model) ==
    [TimerNew(model) EXCEPT !.enable = TRUE, !.frequency = 1, !.tima = 255]

PpuLate ==
    [PpuNew EXCEPT !.stat_data = 16, !.stat_mode = 0, !.ly = 143,
                   !.mode = "Hblank", !.mode_counter = 200]

BusLate == [interrupt_flag |-> 8, interrupt_enable |-> 31]

\* What a step leaves in `obs` before anything ran.
NoStep ==
    [kind |-> "init", res |-> "ok", pc0 |-> 0, sp0 |-> 0, ime0 |-> FALSE,
     halting0 |-> FALSE, delay0 |-> FALSE, if0 |-> 0, ie0 |-> 0,
     isr |-> 0, irq |-> NoService, opcode |-> -1, fetches |-> <<>>,
     cycles |-> 0, raised |-> 0, writes |-> 0,
     halt |-> FALSE, after_halt |-> FALSE, after_pc |-> 0]

Init ==
    \E model \in {"GB", "GBC", "GBP"}, ime \in BOOLEAN, late \in BOOLEAN :
        /\ rom \in [1..ProgLen -> Alphabet]
        /\ cpu = CpuNew(model, ime)
        /\ bus = IF late THEN BusLate ELSE BusNew
        /\ ram = Empty
        /\ io = Empty
        /\ cart = CartridgeNew
        /\ joypad = JoypadNew
        /\ timer = IF late THEN TimerLate(model) ELSE TimerNew(model)
        /\ ppu = IF late THEN PpuLate ELSE PpuNew
        /\ status = "ok"
        /\ steps = 0
        /\ keys = 0
        /\ obs = NoStep

\* One call of step().  Where an integer overflowed, the call aborts in a
\* build that checks the arithmetic and goes on in one that wraps.
Step ==
    /\ status = "ok"
    /\ steps < MaxSteps
    /\ \E m \in {Execute(Machine)} :
           /\ m.res # "unmodelled"
           /\ \E res \in (IF m.t.ovf THEN {m.res, "panic"} ELSE {m.res}) :
                /\ cpu' = m.cpu
                /\ bus' = m.bus
                /\ ram' = m.ram
                /\ io' = m.io
                /\ cart' = m.cart
                /\ joypad' = m.joypad
                /\ timer' = m.timer
                /\ ppu' = m.ppu
                /\ status' = res
                /\ obs' = [kind |-> "step", res |-> res,
                           pc0 |-> cpu.pc, sp0 |-> cpu.sp, ime0 |-> cpu.ime,
                           halting0 |-> cpu.halting, delay0 |-> cpu.ime_delay,
                           if0 |-> bus.interrupt_flag, ie0 |-> bus.interrupt_enable,
                           isr |-> m.t.isr, irq |-> m.t.irq, opcode |-> m.t.opcode,
                           fetches |-> m.t.fetches, cycles |-> m.t.cycles,
                           raised |-> m.t.raised, writes |-> m.t.writes,
                           halt |-> /\ m.t.opcode = 118
                                    /\ ~m.t.irq.ime
                                    /\ And8(m.t.irq.iflag, bus.interrupt_enable) # 0,
                           after_halt |-> obs.halt, after_pc |-> cpu.pc]
    /\ steps' = steps + 1
    /\ UNCHANGED <<rom, keys>>

\* Controller::down: the driver presses a key.
Down(key) ==
    /\ status = "ok"
    /\ keys < MaxKeys
    /\ keys' = keys + 1
    /\ joypad' = [joypad EXCEPT !.data = And8(@, Not8(key)),
                                !.interrupt_flag = Or8(@, 16)]
    /\ obs' = [obs EXCEPT !.kind = "key"]
    /\ UNCHANGED <<cpu, bus, ram, io, cart, timer, ppu, rom, status, steps>>

\* Controller::up: the driver releases a key.
Up(key) ==
    /\ status = "ok"
    /\ keys < MaxKeys
    /\ keys' = keys + 1
    /\ joypad' = [joypad EXCEPT !.data = Or8(@, key)]
    /\ obs' = [obs EXCEPT !.kind = "key"]
    /\ UNCHANGED <<cpu, bus, ram, io, cart, timer, ppu, rom, status, steps>>

Next ==
    \/ Step
    \/ \E key \in Keys : Down(key)
    \/ \E key \in Keys : Up(key)

Spec == Init /\ [][Next]_vars

\* The programs that move the stack: nop, reti, ldh (n),A and rst 38h.
StackAlphabet == {0, 217, 224, 255}

\* The machine after construction, with a program of these.
InitStack ==
    \E model \in {"GB", "GBC", "GBP"}, ime \in BOOLEAN :
        /\ rom \in [1..StackLen -> StackAlphabet]
        /\ cpu = CpuNew(model, ime)
        /\ bus = BusNew
        /\ ram = Empty
        /\ io = Empty
        /\ cart = CartridgeNew
        /\ joypad = JoypadNew
        /\ timer = TimerNew(model)
        /\ ppu = PpuNew
        /\ status = "ok"
        /\ steps = 0
        /\ keys = 0
        /\ obs = NoStep

SpecStack == InitStack /\ [][Next]_vars

-----------------------------------------------------------------------------
(* The peripherals alone: the driver calls SystemBus::process with the      *)
(* cycles of one instruction after the other.  `obs` keeps the cycles       *)
(* elapsed since construction (with the LCD on: `lit`), the bits the last   *)
(* tick raised, the number of ticks that raised V-Blank, the line and the   *)
(* mode of the ppu as the last tick found them, and DIV at construction.    *)

\* The cycles of one frame: 144 lines of 80 + 172 + 204 cycles and 10 lines of
\* 456 cycles in V-Blank.
FrameCycles == 144 * (80 + 172 + 204) + 10 * 456

\* The cycles an instruction takes.
TickSizes == {4, 8, 12, 16, 20, 24, 28, 32}

NoTick(limit) ==
    [kind |-> "init", res |-> "ok", elapsed |-> 0, lit |-> 0,
     raised |-> 0, vblanks |-> 0, limit |-> limit,
     ly0 |-> ppu.ly, mode0 |-> ppu.mode, div0 |-> timer.div]

\* SystemBus::process(n)
Tick(n) ==
    /\ obs.elapsed + n <= obs.limit
    /\ \E m \in {Process(Machine, n)} :
           /\ ppu' = m.ppu
           /\ timer' = m.timer
           /\ joypad' = m.joypad
           /\ bus' = m.bus
           /\ obs' = [obs EXCEPT !.kind = "tick",
                                 !.elapsed = @ + n,
                                 !.lit = IF And8(ppu.lcdc, 128) # 0 THEN @ + n ELSE @,
                                 !.raised = m.t.raised,
                                 !.vblanks = @ + Bit(m.t.raised, 0),
                                 !.ly0 = ppu.ly, !.mode0 = ppu.mode]
    /\ UNCHANGED <<cpu, ram, io, cart, rom, status, steps, keys>>

NextTick == \E n \in TickSizes : Tick(n)

\* The machine at power-on, every interrupt enabled, the LCD kept on.
InitPpu ==
    \E model \in {"GB"} :
        /\ rom = <<0>>
        /\ cpu = CpuNew(model, FALSE)
        /\ bus = [BusNew EXCEPT !.interrupt_enable = 31]
        /\ ram = Empty
        /\ io = Empty
        /\ cart = CartridgeNew
        /\ joypad = JoypadNew
        /\ timer = TimerNew(model)
        /\ ppu = PpuNew
        /\ status = "ok"
        /\ steps = 0
        /\ keys = 0
        /\ obs = NoTick(MaxFrames * FrameCycles)

SpecPpu == InitPpu /\ [][NextTick]_vars

\* The machine at the end of line 143 after the program wrote LCDC (0x11: the
\* LCD off), STAT (the V-Blank check, the LYC check) and LYC, followed for a
\* line more than the frames.
LcdSettings ==
    {[lcdc |-> 145, stat |-> 0, lyc |-> 0],
     [lcdc |-> 145, stat |-> 16, lyc |-> 0],
     [lcdc |-> 145, stat |-> 64, lyc |-> 144],
     [lcdc |-> 17, stat |-> 16, lyc |-> 0]}

InitLcd ==
    \E set \in LcdSettings :
        /\ rom = <<0>>
        /\ cpu = CpuNew("GB", FALSE)
        /\ bus = [BusNew EXCEPT !.interrupt_enable = 31]
        /\ ram = Empty
        /\ io = Empty
        /\ cart = CartridgeNew
        /\ joypad = JoypadNew
        /\ timer = TimerNew("GB")
        /\ ppu = [PpuLate EXCEPT !.lcdc = set.lcdc,
                                !.stat_data = And8(set.stat, 248),
                                !.lyc = set.lyc]
        /\ status = "ok"
        /\ steps = 0
        /\ keys = 0
        /\ obs = NoTick((MaxFrames - 1) * FrameCycles + 456)

SpecLcd == InitLcd /\ [][NextTick]_vars

\* The machine at the end of line 143 after the program wrote STAT (the OAM
\* check, bit 5, and the LYC check, bit 6) and LYC, followed through V-Blank
\* and the first two lines of the next frame.
InitOam ==
    \E stat \in {0, 32, 64, 96}, lyc \in {0, 1} :
        /\ rom = <<0>>
        /\ cpu = CpuNew("GB", FALSE)
        /\ bus = [BusNew EXCEPT !.interrupt_enable = 31]
        /\ ram = Empty
        /\ io = Empty
        /\ cart = CartridgeNew
        /\ joypad = JoypadNew
        /\ timer = TimerNew("GB")
        /\ ppu = [PpuLate EXCEPT !.stat_data = And8(stat, 248), !.lyc = lyc]
        /\ status = "ok"
        /\ steps = 0
        /\ keys = 0
        /\ obs = NoTick(12 * 456)

SpecOam == InitOam /\ [][NextTick]_vars

\* The machine after the program wrote TAC, TIMA and TMA: the timer enabled
\* on bit 9 of DIV, or on bit 3 and one increment before its overflow, with
\* DIV as the reset left it or as a write to DIV did.
TimerSettings ==
    {[tac |-> 4, tima |-> 0, tma |-> 0],
     [tac |-> 5, tima |-> 255, tma |-> 128]}

InitTimer ==
    \E set \in TimerSettings, div \in {ResetDiv("GB"), 0} :
        /\ rom = <<0>>
        /\ cpu = CpuNew("GB", FALSE)
        /\ bus = [BusNew EXCEPT !.interrupt_enable = 31]
        /\ ram = Empty
        /\ io = Empty
        /\ cart = CartridgeNew
        /\ joypad = JoypadNew
        /\ timer = [TimerNew("GB") EXCEPT !.div = div,
                                          !.enable = (And8(set.tac, 4) # 0),
                                          !.frequency = And8(set.tac, 3),
                                          !.tima = set.tima,
                                          !.tma = set.tma]
        /\ ppu = PpuNew
        /\ status = "ok"
        /\ steps = 0
        /\ keys = 0
        /\ obs = NoTick(MaxTimerCycles)

SpecTimer == InitTimer /\ [][NextTick]_vars

-----------------------------------------------------------------------------
(* The bus alone: SystemBus::write and SystemBus::read called with          *)
(* addresses of the work ram and its echo, the high ram, the oam, the       *)
(* region no component maps and the DMA register, while the processor has   *)
(* jumped into the unmapped region.  `obs` keeps the last call: its         *)
(* address, the value written, its Result and the byte read.                *)

\* 0xC000, 0xC09F, 0xDDFF, 0xDE00, 0xE000, 0xFDFF, 0xFF80, 0xFE00, 0xFE9F,
\* 0xFEA0, 0xFEFF, 0xFF46
BusAddrs ==
    {49152, 49311, 56831, 56832, 57344, 65023, 65408, 65024, 65183,
     65184, 65279, IO_DMA}

\* 0xAA, and the pages 0xA0 (cartridge ram), 0xC0 (work ram), 0xFE (oam) and
\* 0xFF (i/o) as the source of a DMA transfer.
BusValues == {170, 160, 192, 254, 255}

NoBusOp ==
    [kind |-> "init", addr |-> 0, value |-> 0, res |-> "ok", got |-> 0,
     ops |-> 0, halt |-> FALSE]

\* SystemBus::write(a, v).  Where an integer overflowed, the call aborts in a
\* build that checks the arithmetic and goes on in one that wraps.
BusWrite(a, v) ==
    /\ status = "ok"
    /\ obs.ops < MaxBusOps
    /\ \E m \in {WriteBus(Machine, a, v)} :
        \E res \in (IF m.t.ovf THEN {m.res, "panic"} ELSE {m.res}) :
           /\ cpu' = m.cpu
           /\ bus' = m.bus
           /\ ram' = m.ram
           /\ io' = m.io
           /\ cart' = m.cart
           /\ joypad' = m.joypad
           /\ timer' = m.timer
           /\ ppu' = m.ppu
           /\ status' = res
           /\ obs' = [kind |-> "write", addr |-> a, value |-> v, res |-> res,
                      got |-> 0, ops |-> obs.ops + 1, halt |-> FALSE]
    /\ UNCHANGED <<rom, steps, keys>>

\* SystemBus::read(a)
BusRead(a) ==
    /\ status = "ok"
    /\ obs.ops < MaxBusOps
    /\ \E r \in {ReadBus(Machine, a)} :
        \E res \in (IF r.ovf THEN {r.st, "panic"} ELSE {r.st}) :
           /\ status' = res
           /\ obs' = [kind |-> "read", addr |-> a, value |-> 0, res |-> res,
                      got |-> r.v, ops |-> obs.ops + 1, halt |-> FALSE]
    /\ UNCHANGED <<cpu, bus, ram, io, cart, joypad, timer, ppu, rom, steps, keys>>

NextBus ==
    \/ \E a \in BusAddrs, v \in BusValues : BusWrite(a, v)
    \/ \E a \in BusAddrs : BusRead(a)
    \/ Step

InitBus ==
    /\ rom = <<0>>
    /\ cpu = [CpuNew("GB", FALSE) EXCEPT !.pc = 65184]
    /\ bus = BusNew
    /\ ram = Empty
    /\ io = Empty
    /\ cart = CartridgeNew
    /\ joypad = JoypadNew
    /\ timer = TimerNew("GB")
    /\ ppu = PpuNew
    /\ status = "ok"
    /\ steps = 0
    /\ keys = 0
    /\ obs = NoBusOp

SpecBus == InitBus /\ [][NextBus]_vars

\* The bus called with addresses of the cartridge: the latches of the MBC3
\* (0x0000, 0x1FFF, 0x2000, 0x4000), the rom (0x0150, 0x7FFF) and the
\* cartridge ram (0xA000, 0xA001, 0xBFFF).
CartAddrs == {0, 8191, 8192, 16384, 336, 32767, 40960, 40961, 49151}

\* 0x00, 0x02, 0x08 (the first register of the clock), 0x0A, 0x13 and 0xFA.
CartValues == {0, 2, 8, 10, 19, 250}

NextCart ==
    \/ \E a \in CartAddrs, v \in CartValues : BusWrite(a, v)
    \/ \E a \in CartAddrs : BusRead(a)

SpecCart == InitBus /\ [][NextCart]_vars

-----------------------------------------------------------------------------
(* The joypad: the driver calls Controller::down and Controller::up, the    *)
(* program selects a group of keys by a write to P1 and reads P1, and the   *)
(* bus ticks in between.  `obs` keeps, beside what a tick leaves, the key   *)
(* of the last call, the interrupts the joypad held before it, the keys     *)
(* whose last call was down(), and the byte read.                           *)

\* Key::Right, Key::Down, Key::A and Key::Start.
KeyValues == {1, 8, 16, 128}

\* The values the program writes to P1: both groups, the directions (bit 4
\* low), the buttons (bit 5 low), neither.
Selects == {0, 32, 16, 48}

NoKey ==
    [kind |-> "init", res |-> "ok", elapsed |-> 0, lit |-> 0,
     raised |-> 0, vblanks |-> 0, limit |-> MaxJoypadCycles,
     ly0 |-> ppu.ly, mode0 |-> ppu.mode, div0 |-> timer.div,
     key |-> 0, held |-> 0, pressed |-> {}, was |-> {}, got |-> 0, ops |-> 0]

\* Controller::down(key)
KeyDown(key) ==
    /\ obs.ops < MaxJoypadOps
    /\ joypad' = [joypad EXCEPT !.data = And8(@, Not8(key)),
                                !.interrupt_flag = Or8(@, 16)]
    /\ obs' = [obs EXCEPT !.kind = "down", !.key = key, !.ops = @ + 1,
                          !.held = joypad.interrupt_flag,
                          !.was = obs.pressed, !.pressed = @ \cup {key}]
    /\ UNCHANGED <<cpu, bus, ram, io, cart, timer, ppu, rom, status, steps, keys>>

\* Controller::up(key)
KeyUp(key) ==
    /\ obs.ops < MaxJoypadOps
    /\ joypad' = [joypad EXCEPT !.data = Or8(@, key)]
    /\ obs' = [obs EXCEPT !.kind = "up", !.key = key, !.ops = @ + 1,
                          !.held = joypad.interrupt_flag,
                          !.was = obs.pressed, !.pressed = @ \ {key}]
    /\ UNCHANGED <<cpu, bus, ram, io, cart, timer, ppu, rom, status, steps, keys>>

\* SystemBus::write(IO_P1, v)
SelectKeys(v) ==
    /\ obs.ops < MaxJoypadOps
    /\ \E m \in {WriteBus(Machine, IO_P1, v)} :
           /\ joypad' = m.joypad
           /\ obs' = [obs EXCEPT !.kind = "select", !.res = m.res, !.ops = @ + 1]
    /\ UNCHANGED <<cpu, bus, ram, io, cart, timer, ppu, rom, status, steps, keys>>

\* SystemBus::read(IO_P1)
ReadKeys ==
    /\ obs.ops < MaxJoypadOps
    /\ \E r \in {ReadBus(Machine, IO_P1)} :
           obs' = [obs EXCEPT !.kind = "read", !.res = r.st, !.got = r.v, !.ops = @ + 1]
    /\ UNCHANGED <<cpu, bus, ram, io, cart, joypad, timer, ppu, rom, status, steps, keys>>

NextJoypad ==
    \/ \E key \in KeyValues : KeyDown(key)
    \/ \E key \in KeyValues : KeyUp(key)
    \/ \E v \in Selects : SelectKeys(v)
    \/ ReadKeys
    \/ NextTick

InitJoypad ==
    /\ rom = <<0>>
    /\ cpu = CpuNew("GB", FALSE)
    /\ bus = [BusNew EXCEPT !.interrupt_enable = 31]
    /\ ram = Empty
    /\ io = Empty
    /\ cart = CartridgeNew
    /\ joypad = JoypadNew
    /\ timer = TimerNew("GB")
    /\ ppu = PpuNew
    /\ status = "ok"
    /\ steps = 0
    /\ keys = 0
    /\ obs = NoKey

SpecJoypad == InitJoypad /\ [][NextJoypad]_vars

-----------------------------------------------------------------------------
(* The decoder alone: Cpu::decode called with every opcode, the byte after  *)
(* it being one of a few.                                                   *)

\* The bytes that follow the opcode: one of each quarter of the table of
\* 0xCB, and 0xFF.
SecondBytes == {0, 64, 128, 192, 255}

\* Cpu::decode(opcode)
DecodeOpcode(opcode) ==
    /\ status = "ok"
    /\ steps < MaxSteps
    /\ \E m \in {IF opcode = 203 THEN Fetch8(Machine) ELSE Machine} :
           /\ cpu' = m.cpu
           /\ obs' = [kind |-> "decode", opcode |-> opcode,
                      fetches |-> m.t.fetches,
                      res |-> DecodeResult(opcode, m)]
    /\ steps' = steps + 1
    /\ UNCHANGED <<bus, ram, io, cart, joypad, timer, ppu, rom, status, keys>>

NextDecode == \E opcode \in 0..255 : DecodeOpcode(opcode)

InitDecode ==
    /\ rom \in {<<b>> : b \in SecondBytes}
    /\ cpu = CpuNew("GB", FALSE)
    /\ bus = BusNew
    /\ ram = Empty
    /\ io = Empty
    /\ cart = CartridgeNew
    /\ joypad = JoypadNew
    /\ timer = TimerNew("GB")
    /\ ppu = PpuNew
    /\ status = "ok"
    /\ steps = 0
    /\ keys = 0
    /\ obs = [kind |-> "init", opcode |-> -1, fetches |-> <<>>, res |-> "none"]

SpecDecode == InitDecode /\ [][NextDecode]_vars

-----------------------------------------------------------------------------
(* The register file (cpu/state.rs) with the stack instructions: in this    *)
(* specification `cpu` is [regs |-> the six 16-bit words AF, BC, DE, HL,   *)
(* SP, PC], and `obs` keeps the last call, its register and value, its      *)
(* Result, and the register file as the call found it.                      *)

Registers ==
    {"A", "F", "AF", "B", "C", "BC", "D", "E", "DE", "H", "L", "HL", "SP", "PC"}

\* registers::get_type
GetType(reg) ==
    CASE reg \in {"A", "B", "D", "H"} -> "High8"
      [] reg \in {"F", "C", "E", "L"} -> "Low8"
      [] OTHER -> "Wide"

\* registers::get_index
GetIndex(reg) ==
    CASE reg \in {"A", "F", "AF"} -> 0
      [] reg \in {"B", "C", "BC"} -> 1
      [] reg \in {"D", "E", "DE"} -> 2
      [] reg \in {"H", "L", "HL"} -> 3
      [] reg = "SP" -> 4
      [] reg = "PC" -> 5

\* CpuState::set, were the write of a high half to clear the low half.
SetClearingLow(regs, reg, value) ==
    LET old == regs[GetIndex(reg)]
    IN  [regs EXCEPT ![GetIndex(reg)] =
            CASE GetType(reg) = "Wide" -> value
              [] GetType(reg) = "Low8" -> And16(old, 65280) + And16(value, 255)
              [] GetType(reg) = "High8" -> And16(value * 256, 65280)]

\* CpuState::set (value: u16); `x & 0xFF00` is x less its low byte, `x & 0x00FF`
\* that byte.
Set(regs, reg, value) ==
    [regs EXCEPT ![GetIndex(reg)] =
        CASE GetType(reg) = "Wide" -> value
          [] GetType(reg) = "Low8" -> (@ - (@ % 256)) + (value % 256)
          [] GetType(reg) = "High8" ->
                (@ % 256) + (((value * 256) % 65536) - (((value * 256) % 65536) % 256))]

\* CpuState::get
Get(regs, reg) ==
    CASE GetType(reg) = "Wide" -> regs[GetIndex(reg)]
      [] GetType(reg) = "Low8" -> regs[GetIndex(reg)] % 256
      [] GetType(reg) = "High8" -> (regs[GetIndex(reg)] \div 256) % 256

\* CpuState::new with CpuState::reset
CpuStateNew(model) ==
    LET zero == [i \in 0..5 |-> 0]
        r1 == Set(zero, "F", 176)
        r2 == Set(r1, "BC", 19)
        r3 == Set(r2, "DE", 216)
        r4 == Set(r3, "HL", 333)
        r5 == Set(r4, "SP", 65534)
        r6 == Set(r5, "PC", 256)
    IN  Set(r6, "A", RegisterA(model))

\* The machine an instruction works on, its registers being `regs`.
MachineOf(regs) ==
    [cpu |-> [pc |-> Get(regs, "PC"), sp |-> Get(regs, "SP"), a |-> Get(regs, "A"),
              f |-> Get(regs, "F"), ime |-> FALSE, halting |-> FALSE,
              halt_bug |-> FALSE, ime_delay |-> FALSE, regs |-> regs],
     bus |-> bus, ram |-> ram, io |-> io, cart |-> cart,
     joypad |-> joypad, timer |-> timer, ppu |-> ppu, rom |-> rom,
     res |-> "ok",
     t |-> [fetches |-> <<>>, writes |-> 0, ovf |-> FALSE, cycles |-> 0,
            isr |-> 0, opcode |-> -1, raised |-> 0,
            irq |-> NoService]]

\* util::push_nn of a register.
PushReg(m, reg) ==
    LET pushed == PushNN(m, Get(m.cpu.regs, reg))
    IN  Cycles([pushed EXCEPT !.cpu.regs = Set(@, "SP", pushed.cpu.sp)], 16)

\* util::pop_nn, were the byte at SP the high one.
PopRegHighFirst(m, reg) ==
    LET address == Get(m.cpu.regs, "SP")
        low == ReadBus(m, WrapAdd16(address, 1))
        high == ReadBus(m, address)
    IN  IF low.st # "ok" THEN Fail([m EXCEPT !.t.ovf = @ \/ low.ovf], low.st)
        ELSE IF high.st # "ok" THEN Fail([m EXCEPT !.t.ovf = @ \/ high.ovf], high.st)
        ELSE Cycles([m EXCEPT !.cpu.regs =
                        Set(Set(@, reg, high.v * 256 + low.v), "SP", WrapAdd16(address, 2))],
                    12)

\* util::pop_nn
PopReg(m, reg) ==
    LET address == Get(m.cpu.regs, "SP")
        low == ReadBus(m, address)
        high == ReadBus(m, WrapAdd16(address, 1))
    IN  IF low.st # "ok" THEN Fail([m EXCEPT !.t.ovf = @ \/ low.ovf], low.st)
        ELSE IF high.st # "ok" THEN Fail([m EXCEPT !.t.ovf = @ \/ high.ovf], high.st)
        ELSE Cycles([m EXCEPT !.cpu.regs =
                        Set(Set(@, reg, high.v * 256 + low.v), "SP", WrapAdd16(address, 2))],
                    12)

\* The addresses of the work ram, its echo and the high ram.
Writable(a) ==
    In(a, MMAP_RAM_INTERNAL) \/ In(a, MMAP_RAM_ECHO) \/ In(a, MMAP_RAM_HIGH)

\* The values written to a register: bytes to a half, words to a pair.
RegValues(reg) ==
    IF GetType(reg) = "Wide" THEN {4660, 65535} ELSE {0, 52, 255}

\* Where the stack starts: at the 0xFFFE of reset, at the top of the work
\* ram, and one byte above its bottom.
StackTops == {65534, 57342, 49153}

NoRegOp ==
    [kind |-> "init", reg |-> "PC", value |-> 0, res |-> "ok", ops |-> 0,
     regs0 |-> cpu.regs]

\* CpuState::set(reg, value)
SetReg(reg, value) ==
    /\ status = "ok"
    /\ obs.ops < MaxRegOps
    /\ cpu' = [cpu EXCEPT !.regs = Set(@, reg, value)]
    /\ obs' = [kind |-> "set", reg |-> reg, value |-> value, res |-> "ok",
               ops |-> obs.ops + 1, regs0 |-> cpu.regs]
    /\ UNCHANGED <<bus, ram, io, cart, joypad, timer, ppu, rom, status, steps, keys>>

\* The instruction of `kind` ("push": opcode_c5, d5, e5, f5; "pop": opcode_c1,
\* d1, e1, f1) on the pair `reg`.
StackOp(kind, reg) ==
    /\ status = "ok"
    /\ obs.ops < MaxRegOps
    /\ \E m \in {IF kind = "push" THEN PushReg(MachineOf(cpu.regs), reg)
                                  ELSE PopReg(MachineOf(cpu.regs), reg)} :
           /\ cpu' = [cpu EXCEPT !.regs = m.cpu.regs]
           /\ bus' = m.bus
           /\ ram' = m.ram
           /\ io' = m.io
           /\ cart' = m.cart
           /\ joypad' = m.joypad
           /\ timer' = m.timer
           /\ ppu' = m.ppu
           /\ status' = m.res
           /\ obs' = [kind |-> kind, reg |-> reg, value |-> Get(cpu.regs, reg),
                      res |-> m.res, ops |-> obs.ops + 1,
                      regs0 |-> cpu.regs]
    /\ UNCHANGED <<rom, steps, keys>>

NextRegs ==
    \/ \E reg \in Registers : \E value \in RegValues(reg) : SetReg(reg, value)
    \/ \E kind \in {"push", "pop"}, reg \in {"BC", "DE", "HL", "AF"} : StackOp(kind, reg)

InitRegs ==
    /\ rom = <<0>>
    /\ \E top \in StackTops : cpu = [regs |-> Set(CpuStateNew("GB"), "SP", top)]
    /\ bus = BusNew
    /\ ram = Empty
    /\ io = Empty
    /\ cart = CartridgeNew
    /\ joypad = JoypadNew
    /\ timer = TimerNew("GB")
    /\ ppu = PpuNew
    /\ status = "ok"
    /\ steps = 0
    /\ keys = 0
    /\ obs = NoRegOp

SpecRegs == InitRegs /\ [][NextRegs]_vars

-----------------------------------------------------------------------------
(* The 8-bit adder and subtractor (cpu/alu.rs), applied once to the         *)
(* processor as construction leaves it, for every pair of operands.  `obs`  *)
(* keeps the function, its operands and the byte it returned.               *)

\* registers::Flag: the bit of F that holds a flag.
FlagBit(flag) ==
    CASE flag = "C" -> 4 [] flag = "H" -> 5 [] flag = "N" -> 6 [] flag = "Z" -> 7

\* CpuState::get_flag; the `flag` the instructions call is taken to be it.
GetFlag(regs, flag) == Bit(Get(regs, "F"), FlagBit(flag)) = 1

\* CpuState::set_flag
SetFlag(regs, flag, value) ==
    LET old_flags == Get(regs, "F")
        held == Bit(old_flags, FlagBit(flag)) * (2 ^ FlagBit(flag))
        new_flags == IF value THEN (old_flags - held) + (2 ^ FlagBit(flag))
                     ELSE old_flags - held
    IN  Set(regs, "F", new_flags)

\* The four flags, set in the order the alu sets them.
SetFlags(regs, z, n, h, c) ==
    CHOOSE out \in
        {SetFlag(r3, "C", c) : r3 \in
            {SetFlag(r2, "H", h) : r2 \in
                {SetFlag(r1, "N", n) : r1 \in {SetFlag(regs, "Z", z)}}}} : TRUE

\* alu8::add, were the half carry taken from the whole sum.
AddHalfOfSum(regs, lhs, rhs) ==
    LET result_16 == (lhs + rhs) % 65536
        result == result_16 % 256
    IN  [regs |-> SetFlags(regs, result = 0, FALSE, result > 15, result_16 > 255),
         v |-> result]

\* alu8::add: the registers it leaves and the byte it returns.
Add(regs, lhs, rhs) ==
    LET result_16 == (lhs + rhs) % 65536
        result_8 == ((lhs % 16) + (rhs % 16)) % 256
        result == result_16 % 256
    IN  [regs |-> SetFlags(regs, result = 0, FALSE, result_8 > 15, result_16 > 255),
         v |-> result]

\* alu8::sub
Sub(regs, lhs, rhs) ==
    LET result_16 == (lhs + 65536 - rhs) % 65536
        result == result_16 % 256
    IN  [regs |-> SetFlags(regs, result = 0, TRUE, (lhs % 16) < (rhs % 16),
                           lhs < rhs),
         v |-> result]

\* A call of alu8::add or alu8::sub on the processor.
AluOp(kind, lhs, rhs) ==
    /\ \E r \in {IF kind = "add" THEN Add(cpu.regs, lhs, rhs)
                                 ELSE Sub(cpu.regs, lhs, rhs)} :
           /\ cpu' = [cpu EXCEPT !.regs = r.regs]
           /\ obs' = [kind |-> kind, lhs |-> lhs, rhs |-> rhs, got |-> r.v]
    /\ UNCHANGED <<bus, ram, io, cart, joypad, timer, ppu, rom, status, steps, keys>>

NextAlu ==
    /\ obs.kind = "init"
    /\ \E kind \in {"add", "sub"}, lhs \in 0..255, rhs \in 0..255 : AluOp(kind, lhs, rhs)

InitAlu ==
    /\ rom = <<0>>
    /\ cpu = [regs |-> CpuStateNew("GB")]
    /\ bus = BusNew
    /\ ram = Empty
    /\ io = Empty
    /\ cart = CartridgeNew
    /\ joypad = JoypadNew
    /\ timer = TimerNew("GB")
    /\ ppu = PpuNew
    /\ status = "ok"
    /\ steps = 0
    /\ keys = 0
    /\ obs = [kind |-> "init", lhs |-> 0, rhs |-> 0, got |-> 0]

SpecAlu == InitAlu /\ [][NextAlu]_vars

-----------------------------------------------------------------------------
(* Single instructions on the register file: the 8-bit increments and       *)
(* decrements, the fetch, jr and ld HL,SP+n, each applied once to a         *)
(* processor whose flags, register B, PC, SP and HL and whose bytes at PC   *)
(* and PC+1 (`v` and `w` of `obs`) are drawn at the start.                  *)

\* alu8::inc_register, were the carry of the addition kept.
IncRegisterCarrying(m, reg) ==
    LET value == Get(m.cpu.regs, reg) % 256
        r == Add(m.cpu.regs, value, 1)
    IN  Cycles([m EXCEPT !.cpu.regs = Set(r.regs, reg, r.v)], 4)

\* alu8::inc_register
IncRegister(m, reg) ==
    LET old_carry == GetFlag(m.cpu.regs, "C")
        value == Get(m.cpu.regs, reg) % 256
        r == Add(m.cpu.regs, value, 1)
    IN  Cycles([m EXCEPT !.cpu.regs = SetFlag(Set(r.regs, reg, r.v), "C", old_carry)], 4)

\* alu8::dec_register
DecRegister(m, reg) ==
    LET old_carry == GetFlag(m.cpu.regs, "C")
        value == Get(m.cpu.regs, reg) % 256
        r == Sub(m.cpu.regs, value, 1)
    IN  Cycles([m EXCEPT !.cpu.regs = SetFlag(Set(r.regs, reg, r.v), "C", old_carry)], 4)

\* alu8::inc_mem (kind "inc") and alu8::dec_mem (kind "dec"): a failing read
\* or write returns before the carry is restored.
IncDecMem(m, kind) ==
    LET address == Get(m.cpu.regs, "HL")
        old_carry == GetFlag(m.cpu.regs, "C")
        value == ReadBus(m, address)
        r == IF kind = "inc" THEN Add(m.cpu.regs, value.v, 1)
                             ELSE Sub(m.cpu.regs, value.v, 1)
        written == WriteBus([m EXCEPT !.cpu.regs = r.regs], address, r.v)
    IN  IF value.st # "ok" THEN Fail([m EXCEPT !.t.ovf = @ \/ value.ovf], value.st)
        ELSE IF written.res # "ok" THEN written
        ELSE Cycles([written EXCEPT !.cpu.regs = SetFlag(@, "C", old_carry)], 12)

\* Cpu::fetch, one turn of its loop: the byte at PC; PC moves forward unless
\* the halt bug holds it once.  `pc + 1` overflows at 0xFFFF.
FetchByte(m) ==
    IF m.res # "ok" THEN m
    ELSE
    LET pc == Get(m.cpu.regs, "PC")
        data == ReadBus(m, pc)
        seen == [m EXCEPT !.t.ovf = @ \/ data.ovf]
    IN  IF data.st # "ok" THEN Fail(seen, data.st)
        ELSE IF m.cpu.halt_bug
        THEN [seen EXCEPT !.cpu.halt_bug = FALSE,
                  !.t.fetches = Append(@, [addr |-> pc, v |-> data.v, next |-> pc, bug |-> TRUE])]
        ELSE [seen EXCEPT !.cpu.regs = Set(@, "PC", (pc + 1) % 65536),
                  !.t.ovf = @ \/ (pc = 65535),
                  !.t.fetches = Append(@, [addr |-> pc, v |-> data.v,
                                           next |-> (pc + 1) % 65536, bug |-> FALSE])]

\* Cpu::fetch::<T> for a T of `size` bytes (1: u8, 2: u16).
Fetch(m, size) ==
    IF size = 1 THEN FetchByte(m) ELSE FetchByte(FetchByte(m))

\* The value Cpu::fetch returns: `result += data << (8 * i)`.
FetchResult(m) ==
    IF Len(m.t.fetches) = 1 THEN m.t.fetches[1].v
    ELSE m.t.fetches[1].v + ((m.t.fetches[2].v * 256) % 65536)

\* `(offset as i8) as i16 as u16`
SignExtend(offset) == IF offset >= 128 THEN 65280 + offset ELSE offset

\* util::jump_relative
JumpRelative(m) ==
    LET f == FetchByte(m)
    IN  IF f.res # "ok" THEN f
        ELSE Cycles([f EXCEPT !.cpu.regs =
                        Set(@, "PC", WrapAdd16(Get(f.cpu.regs, "PC"),
                                               SignExtend(Fetched(f))))], 8)

\* alu16::add
Add16(regs, lhs, rhs) ==
    LET result_32 == lhs + rhs
        result_16 == ((lhs % 4096) + (rhs % 4096)) % 65536
        result == result_32 % 65536
    IN  [regs |-> SetFlags(regs, result = 0, FALSE, result_16 > 4095, result_32 > 65535),
         v |-> result]

\* ld HL, SP+n: the offset is `cpu.fetch::<u8>()? as u16`.
OpcodeF8(m) ==
    LET f == FetchByte(m)
        r == Add16(f.cpu.regs, Get(f.cpu.regs, "SP"), Fetched(f))
    IN  IF f.res # "ok" THEN f
        ELSE Cycles([f EXCEPT !.cpu.regs = SetFlag(Set(r.regs, "HL", r.v), "Z", FALSE)], 12)

\* The instruction `kind` with its argument: the register of inc and dec
\* ("(HL)" for the byte in memory), the size of a fetch.
Apply(m, kind, arg) ==
    CASE kind \in {"inc", "dec"} /\ arg = "(HL)" -> IncDecMem(m, kind)
      [] kind = "inc" /\ arg # "(HL)" -> IncRegister(m, arg)
      [] kind = "dec" /\ arg # "(HL)" -> DecRegister(m, arg)
      [] kind = "fetch" -> Fetch(m, arg)
      [] kind = "jr" -> JumpRelative(m)
      [] kind = "ldhl" -> OpcodeF8(m)

\* One instruction.  Where an integer overflowed, the call aborts in a build
\* that checks the arithmetic and goes on in one that wraps.
Insn(kind, arg) ==
    /\ \E m \in {Apply(MachineOf(cpu.regs), kind, arg)} :
        \E res \in (IF m.t.ovf THEN {m.res, "panic"} ELSE {m.res}) :
           /\ cpu' = [cpu EXCEPT !.regs = m.cpu.regs]
           /\ bus' = m.bus
           /\ ram' = m.ram
           /\ io' = m.io
           /\ cart' = m.cart
           /\ joypad' = m.joypad
           /\ timer' = m.timer
           /\ ppu' = m.ppu
           /\ status' = res
           /\ obs' = [obs EXCEPT !.kind = kind, !.arg = arg, !.res = res,
                                 !.got = IF kind = "fetch" /\ m.res = "ok"
                                         THEN FetchResult(m) ELSE 0,
                                 !.regs0 = cpu.regs]
    /\ UNCHANGED <<rom, steps, keys>>

NextInsn ==
    /\ obs.kind = "init"
    /\ \/ \E kind \in {"inc", "dec"}, arg \in {"A", "B", "L", "(HL)"} : Insn(kind, arg)
       \/ \E size \in {1, 2} : Insn("fetch", size)
       \/ Insn("jr", 0)
       \/ Insn("ldhl", 0)

\* Where PC, SP and HL are: in the work ram with the stack of reset; at the
\* top of the high ram; and at the last address, with SP near zero.
InsnPlaces ==
    {[pc |-> 49152, sp |-> 65534, hl |-> 49152],
     [pc |-> 65534, sp |-> 57342, hl |-> 333],
     [pc |-> 65535, sp |-> 5, hl |-> 49153]}

\* The byte of the bus register IE when `v` is at `pc` and `w` after it.
ByteAtIe(pc, v, w) == IF pc = 65535 THEN v ELSE IF pc = 65534 THEN w ELSE 0

InitInsn ==
    \E v \in 0..255, f \in {16 * i : i \in 0..15}, place \in InsnPlaces :
        \E w \in {255 - v} :
        /\ rom = <<w>>
        /\ cpu = [regs |-> Set(Set(Set(Set(Set(CpuStateNew("GB"), "F", f), "B", v),
                                       "PC", place.pc), "SP", place.sp), "HL", place.hl)]
        /\ bus = [interrupt_flag |-> 0, interrupt_enable |-> ByteAtIe(place.pc, v, w)]
        /\ ram = [k \in {RamKey(a) : a \in {x \in {place.pc, place.pc + 1} : Writable(x)}}
                    |-> IF k = RamKey(place.pc) THEN v ELSE w]
        /\ io = Empty
        /\ cart = CartridgeNew
        /\ joypad = JoypadNew
        /\ timer = TimerNew("GB")
        /\ ppu = PpuNew
        /\ status = "ok"
        /\ steps = 0
        /\ keys = 0
        /\ obs = [kind |-> "init", arg |-> 0, res |-> "ok", got |-> 0,
                  regs0 |-> CpuStateNew("GB"), v |-> v, w |-> w]

SpecInsn == InitInsn /\ [][NextInsn]_vars

-----------------------------------------------------------------------------
(* The halted CPU and the frame.  The machine is at power-on with one of    *)
(* two programs, HALT alone or LDH (0xFF),A then HALT (A is 0x01 after      *)
(* boot, so the second enables the V-Blank interrupt), and the driver calls *)
(* step() again and again until a halted CPU has left the halted state.     *)
(* `obs.idle` counts the cycles of the steps that began halted, `obs.left`  *)
(* says that the step began halted and that its service of the interrupts   *)
(* ended the halt, whatever the instruction it then ran.                    *)

\* The cycles after which the driver gives up on a CPU that stays halted.
MaxHaltCycles == FrameCycles + 456

\* The images: pc 0x100 reads the second byte of a three-byte image.
HaltPrograms == {<<118>>, <<118, 224, 255>>}

NoHaltStep ==
    [kind |-> "init", res |-> "ok", idle |-> 0, left |-> FALSE, isr |-> 0,
     ime0 |-> FALSE, cycles |-> 0]

InitHalt ==
    \E ime \in BOOLEAN, late \in BOOLEAN, image \in HaltPrograms :
        /\ rom = image
        /\ cpu = CpuNew("GB", ime)
        /\ bus = BusNew
        /\ ram = Empty
        /\ io = Empty
        /\ cart = CartridgeNew
        /\ joypad = JoypadNew
        /\ timer = TimerNew("GB")
        /\ ppu = IF late THEN PpuLate ELSE PpuNew
        /\ status = "ok"
        /\ steps = 0
        /\ keys = 0
        /\ obs = NoHaltStep

\* The loop of examples/emulator.rs calls step() once more: nothing failed, and
\* the driver has not seen the end of a halt or given up on one.
StepCalled ==
    /\ status = "ok"
    /\ ~obs.left
    /\ obs.idle <= MaxHaltCycles
    /\ steps' = steps + 1

\* One call of step().
HaltStep ==
    /\ StepCalled
    /\ \E m \in {Execute(Machine)} :
           /\ m.res # "unmodelled"
           /\ \E res \in (IF m.t.ovf THEN {m.res, "panic"} ELSE {m.res}) :
                /\ cpu' = m.cpu
                /\ bus' = m.bus
                /\ ram' = m.ram
                /\ io' = m.io
                /\ cart' = m.cart
                /\ joypad' = m.joypad
                /\ timer' = m.timer
                /\ ppu' = m.ppu
                /\ status' = res
                /\ obs' = [kind |-> "step", res |-> res,
                           idle |-> IF cpu.halting THEN obs.idle + m.t.cycles
                                    ELSE 0,
                           left |-> cpu.halting /\ ~m.t.irq.halting,
                           isr |-> m.t.isr, ime0 |-> cpu.ime,
                           cycles |-> m.t.cycles]
    /\ UNCHANGED <<rom, keys>>

SpecHalt == InitHalt /\ [][HaltStep]_vars

\* The loop does not stop calling step(): a call that stays possible is made.
SpecHaltFair == SpecHalt /\ WF_steps(StepCalled)

-----------------------------------------------------------------------------
(* What the steps are checked against.  `obs` describes the last step: the  *)
(* registers before it (pc0, sp0, ime0, halting0, if0, ie0), the registers  *)
(* as the service of the interrupts left them (irq), the vector entered     *)
(* (isr), the instruction run (opcode, fetches) and the cycles returned.    *)

\* The last operation was a step that returned Ok.
Stepped == obs.kind = "step" /\ obs.res = "ok"

\* The last operation was a step that returned Ok and entered a service routine.
Entered == Stepped /\ obs.isr # 0

\* The lowest of the bits 0..4 set in a mask that has one.
LowestBit(mask) ==
    CHOOSE i \in 0..4 : Bit(mask, i) = 1 /\ \A j \in 0..4 : Bit(mask, j) = 1 => i <= j

\* The number of the bits 0..4 set in a mask.
BitCount(mask) == Cardinality({i \in 0..4 : Bit(mask, i) = 1})

\* The addresses whose bytes keep what is written: work ram, its echo, high ram.
Keeps(a) == In(a, MMAP_RAM_INTERNAL) \/ In(a, MMAP_RAM_ECHO) \/ In(a, MMAP_RAM_HIGH)

\* The cycles of the instructions of the programs.
CyclesOf(opcode) ==
    CASE opcode \in {0, 118, 243, 251} -> 4
      [] opcode = 217 -> 8
      [] opcode = 224 -> 12
      [] opcode = 255 -> 32

NoServiceWhenDisabled ==
    (obs.kind = "step" /\ ~obs.ime0)
        => /\ obs.isr = 0
           /\ obs.irq.writes = 0
           /\ obs.irq.sp = obs.sp0
           /\ obs.irq.iflag = obs.if0
           /\ obs.irq.pc = obs.pc0
           /\ obs.irq.cycles = 0

\* C2's case: IME was clear while bits of IF were pending.
NoServiceWhenDisabledWitness ==
    /\ Stepped /\ ~obs.ime0
    /\ And8(obs.if0, obs.ie0) # 0
    /\ obs.isr = 0

ReturnsAfterDispatch ==
    Entered => /\ obs.fetches = <<>>
               /\ cpu.pc = obs.isr
               /\ obs.cycles = obs.irq.cycles

\* C5: a step that enters a routine loads PC with the vector (24 cycles), then
\* runs the instruction at the vector in the same step and returns the sum.
RunsAfterDispatch ==
    Entered => /\ obs.irq.pc = obs.isr
               /\ obs.irq.cycles = 24
               /\ Len(obs.fetches) >= 1
               /\ obs.fetches[1].addr = obs.isr
               /\ obs.opcode = obs.fetches[1].v
               /\ obs.cycles = 24 + CyclesOf(obs.opcode)

\* C5's case: a routine was entered and the instruction at its vector ran.
RunsAfterDispatchWitness ==
    /\ Entered
    /\ obs.opcode = 0
    /\ obs.cycles = 28

TickMergesAndMasks ==
    Stepped => /\ And8(bus.interrupt_flag, Not8(bus.interrupt_enable)) = 0
               /\ And8(And8(obs.raised, bus.interrupt_enable),
                       Not8(bus.interrupt_flag)) = 0
               /\ ppu.interrupt_flag = 0
               /\ timer.interrupt_flag = 0
               /\ joypad.interrupt_flag = 0

\* C7's case: the tick raised a bit that IE enables and a bit that it lacks.
TickMergesAndMasksWitness ==
    /\ Stepped
    /\ And8(obs.raised, bus.interrupt_enable) # 0
    /\ And8(obs.raised, Not8(bus.interrupt_enable)) # 0

\* C8: the interrupts are served before the instruction and the peripherals
\* tick after it: the bit a step serves was in IF when the step began, and what
\* the tick raised (and IE enables) is still in IF when the step ends.
ServedBeforeTick ==
    Stepped => /\ obs.isr # 0 => Bit(obs.if0, (obs.isr - 64) \div 8) = 1
               /\ And8(And8(obs.raised, bus.interrupt_enable),
                       Not8(bus.interrupt_flag)) = 0

\* C8's case: a step that served a bit had its tick raise another one, which
\* is pending at its end.
ServedBeforeTickWitness ==
    /\ Entered
    /\ And8(And8(obs.raised, bus.interrupt_enable), Not8(obs.if0)) # 0
    /\ And8(bus.interrupt_flag, Not8(obs.if0)) # 0

NoWake ==
    /\ cpu.halting
    /\ IF cpu.ime THEN And8(bus.interrupt_flag, 31) = 0 ELSE bus.interrupt_flag = 0

Phase(p) ==
    p.ly * 456 + p.mode_counter
        + (CASE p.mode = "SearchOam" -> 0
             [] p.mode = "RenderLine" -> 80
             [] p.mode = "Hblank" -> 80 + 172
             [] p.mode = "Vblank" -> 0)

\* The mode of the ppu `c` cycles after a frame began.
ModeAt(c) ==
    IF c >= 144 * 456 THEN "Vblank"
    ELSE IF c % 456 < 80 THEN "SearchOam"
    ELSE IF c % 456 < 80 + 172 THEN "RenderLine"
    ELSE "Hblank"

\* C12: from power-on with the LCD on, whatever the cycles of the ticks, the
\* ppu is where the cycles elapsed modulo 70224 put it: LY is the line of 456
\* cycles, 0..153 in turn, and the mode is the one of the place in the line.
PpuPeriod ==
    obs.kind = "tick"
        => /\ FrameCycles = 70224
           /\ Phase(ppu) = obs.elapsed % FrameCycles
           /\ ppu.ly = (obs.elapsed % FrameCycles) \div 456
           /\ ppu.ly \in 0..153
           /\ ppu.mode = ModeAt(obs.elapsed % FrameCycles)

\* C12's case: the second frame has ended and the ppu is at the start of line 0.
PpuPeriodWitness ==
    /\ obs.kind = "tick"
    /\ obs.elapsed = 2 * FrameCycles
    /\ ppu.ly = 0 /\ ppu.mode = "SearchOam" /\ ppu.mode_counter = 0
    /\ obs.ly0 = 153

\* The tick moved LY from 143 to 144 and the mode from Hblank to Vblank.
EntersVblank ==
    /\ obs.kind = "tick"
    /\ obs.mode0 = "Hblank"
    /\ obs.ly0 = 143
    /\ ppu.ly = 144
    /\ ppu.mode = "Vblank"

\* The ticks that raised V-Blank, counted from the cycles the LCD was on
\* since the ppu was at PpuLate.
VblanksDue == (obs.lit + Phase(PpuLate) + FrameCycles - 144 * 456) \div FrameCycles

\* C13 as stated: a tick raises V-Blank exactly when it moves LY from 143 to
\* 144 and the mode to Vblank, once per frame, and that tick raises LCD-STAT
\* if and only if bit 4 of STAT is set.
VblankOncePerFrame ==
    obs.kind = "tick" =>
        /\ (Bit(obs.raised, 0) = 1) <=> EntersVblank
        /\ obs.vblanks = VblanksDue
        /\ EntersVblank =>
               ((Bit(obs.raised, 1) = 1) <=> (And8(ppu.stat_data, 16) # 0))

\* C13 amended: a tick raises V-Blank exactly when it moves LY from 143 to
\* 144 and the mode to Vblank, once per frame, and that tick raises LCD-STAT
\* if and only if bit 4 of STAT is set, or bit 6 is set and LYC is 144.
VblankOncePerFrameLyc ==
    obs.kind = "tick" =>
        /\ (Bit(obs.raised, 0) = 1) <=> EntersVblank
        /\ obs.vblanks = VblanksDue
        /\ EntersVblank =>
               ((Bit(obs.raised, 1) = 1) <=>
                    \/ And8(ppu.stat_data, 16) # 0
                    \/ And8(ppu.stat_data, 64) # 0 /\ ppu.lyc = 144)

\* The second V-Blank of a run, raised together with LCD-STAT.
VblankOncePerFrameWitness ==
    /\ EntersVblank
    /\ obs.vblanks = 2
    /\ Bit(obs.raised, 0) = 1
    /\ Bit(obs.raised, 1) = 1
    /\ And8(ppu.stat_data, 16) # 0

\* C14: while bit 7 of LCDC is 0, a tick of any number of cycles leaves the
\* ppu as it was: mode, counter, LY, STAT and the pending interrupts.
LcdOffIdle ==
    [][(And8(ppu.lcdc, 128) = 0 /\ obs'.elapsed # obs.elapsed) =>
           /\ ppu' = ppu
           /\ ppu' = PpuProcess(ppu, obs'.elapsed - obs.elapsed)
           /\ Bit(obs'.raised, 0) = 0
           /\ Bit(obs'.raised, 1) = 0]_vars

\* The LCD was off for more than a frame of ticks and the ppu is where it was.
LcdOffIdleWitness ==
    /\ obs.kind = "tick"
    /\ And8(ppu.lcdc, 128) = 0
    /\ obs.elapsed > FrameCycles
    /\ obs.lit = 0
    /\ ppu.ly = 143
    /\ ppu.mode = "Hblank"
    /\ ppu.mode_counter = 200

\* The times bit 9 of DIV went from 1 to 0 since construction.
FallsOfBit9 == (obs.div0 + obs.elapsed) \div 1024 - obs.div0 \div 1024

\* C15: with the timer enabled on bit 9 of DIV, TIMA counts the times the bit
\* went from 1 to 0, once per 1024 cycles, over any run of ticks.
TimaOncePer1024 ==
    (timer.enable /\ timer.frequency = 0) =>
        timer.tima = FallsOfBit9 % 256

\* C16: with TAC = 5, TIMA = 0xFF and TMA = 0x80, after 16 cycles, however
\* they are split into ticks, TIMA is 0x80 and bit 2 of IF is set.
OverflowAfter16 ==
    (timer.enable /\ timer.frequency = 1 /\ timer.tma = 128 /\ obs.elapsed = 16) =>
        /\ timer.tima = 128
        /\ Bit(bus.interrupt_flag, 2) = 1

\* The addresses of the internal ram among those the bus is called with, and
\* the other address of a byte that has two.
RamSample ==
    {a \in BusAddrs : In(a, MMAP_RAM_INTERNAL) \/ In(a, MMAP_RAM_ECHO) \/ In(a, MMAP_RAM_HIGH)}
Aliases(a) ==
    IF In(a, MMAP_RAM_INTERNAL) /\ a + 8192 <= MMAP_RAM_ECHO.end THEN {a, a + 8192}
    ELSE IF In(a, MMAP_RAM_ECHO) THEN {a, a - 8192}
    ELSE {a}

\* C17: after every bus write, each address of 0xC000..0xDDFF reads as the
\* address 0x2000 above it; a write to either is read back at both and
\* changes no other byte of the work ram or the high ram.
EchoAliases ==
    [][obs'.kind = "write" =>
          /\ \A a \in RamSample :
                 In(a, MMAP_RAM_INTERNAL) /\ a + 8192 <= MMAP_RAM_ECHO.end =>
                     /\ ReadBus(Machine', a).st = "ok"
                     /\ ReadBus(Machine', a + 8192) = ReadBus(Machine', a)
          /\ obs'.addr \in RamSample =>
                 /\ obs'.res = "ok"
                 /\ \A b \in Aliases(obs'.addr) : ReadBus(Machine', b) = RdOk(obs'.value)
                 /\ \A b \in RamSample \ Aliases(obs'.addr) :
                        ReadBus(Machine', b) = ReadBus(Machine, b)]_vars

\* 0xAA was written to 0xFDFF and is read at 0xDDFF, 0xC000 keeping its byte.
EchoAliasesWitness ==
    /\ obs.kind = "write"
    /\ obs.addr = 65023
    /\ obs.value = 170
    /\ ReadBus(Machine, 56831) = RdOk(170)
    /\ ReadBus(Machine, 49152) = RdOk(192)

\* The read of the i-th byte of the source of the DMA transfer just made, as
\* it was before the write, and the reads that failed.
DmaRead(i) == ReadBus(Machine, obs'.value * 256 + i)
DmaFailed == {i \in 0..159 : DmaRead(i).st # "ok"}

\* The write changed nothing but the oam.
OamAlone ==
    /\ [ppu' EXCEPT !.oam = ppu.oam] = ppu
    /\ UNCHANGED <<cpu, bus, ram, io, cart, joypad, timer, rom>>

\* C18 as stated: a write of V to 0xFF46 leaves in the oam the 160 bytes read
\* from V * 256 on, as they were before the write, and changes nothing
\* else; a read of 0xFF46 returns 0.
DmaCopies ==
    [][/\ (obs'.kind = "write" /\ obs'.addr = IO_DMA) =>
              /\ \A i \in 0..159 :
                     /\ DmaRead(i).st = "ok"
                     /\ Load(ppu'.oam, i, 0) = DmaRead(i).v
              /\ OamAlone
       /\ (obs'.kind = "read" /\ obs'.addr = IO_DMA) =>
              obs'.res = "ok" /\ obs'.got = 0]_vars

\* C18 amended: where the 160 reads succeed the write succeeds and leaves
\* their bytes in the oam; where one fails the write fails as that read
\* does, with the bytes read before it in the oam and the rest of the oam as
\* it was; nothing else changes, and a read of 0xFF46 returns 0.
DmaCopiesReadable ==
    [][/\ (obs'.kind = "write" /\ obs'.addr = IO_DMA) =>
              /\ DmaFailed = {} =>
                     /\ obs'.res = "ok"
                     /\ \A i \in 0..159 : Load(ppu'.oam, i, 0) = DmaRead(i).v
              /\ DmaFailed # {} =>
                     \E stop \in DmaFailed :
                         /\ \A j \in DmaFailed : stop <= j
                         /\ obs'.res = DmaRead(stop).st
                         /\ \A i \in 0..159 :
                                Load(ppu'.oam, i, 0) =
                                    IF i < stop THEN DmaRead(i).v ELSE Load(ppu.oam, i, 0)
              /\ OamAlone
       /\ (obs'.kind = "read" /\ obs'.addr = IO_DMA) =>
              obs'.res = "ok" /\ obs'.got = 0]_vars

\* The page 0xC0 was copied after 0xAA was written to 0xC000 and 0xC09F.
DmaCopiesWitness ==
    /\ obs.kind = "write"
    /\ obs.addr = IO_DMA
    /\ obs.value = 192
    /\ obs.res = "ok"
    /\ Load(ppu.oam, 0, 0) = 170
    /\ Load(ppu.oam, 1, 0) = 0
    /\ Load(ppu.oam, 159, 0) = 170

\* C19: every bus read or write of 0xFE00..0xFE9F succeeds, a read returning
\* the byte of the oam at that address; none aborts.
OamServed ==
    (obs.kind \in {"read", "write"} /\ In(obs.addr, MMAP_SPRITE_OAM)) =>
        /\ obs.res = "ok"
        /\ Load(ppu.oam, obs.addr - MMAP_SPRITE_OAM.start, 0) =
               IF obs.kind = "read" THEN obs.got ELSE obs.value

\* The addresses that no component maps: 0xFEA0 .. 0xFEFF.
Unmapped(a) == InRange(a, MMAP_SPRITE_OAM.end + 1, MMAP_IO_PORTS.start - 1)

\* C20: a bus read or write of an unmapped address returns an error, not an
\* abort, and changes nothing of the bus, the peripherals or the cartridge;
\* a step that fetches from such an address returns the error to the driver.
UnmappedIsError ==
    [][/\ (obs'.kind \in {"read", "write"} /\ Unmapped(obs'.addr)) =>
              /\ obs'.res = "err"
              /\ status' = "err"
              /\ UNCHANGED <<cpu, bus, ram, io, cart, joypad, timer, ppu, rom>>
       /\ (obs'.kind = "step" /\ Unmapped(cpu.pc) /\ obs'.isr = 0) =>
              /\ obs'.res = "err"
              /\ status' = "err"
              /\ obs'.fetches = <<>>
              /\ UNCHANGED <<cpu, bus, ram, io, cart, joypad, timer, ppu, rom>>]_vars

\* A write to 0xFEFF after two calls that succeeded returned the error.
UnmappedIsErrorWitness ==
    /\ obs.kind = "write"
    /\ obs.addr = 65279
    /\ obs.ops = 3
    /\ obs.res = "err"
    /\ status = "err"

\* A step with PC at 0xFEA0 returned the error.
UnmappedStepWitness ==
    /\ obs.kind = "step"
    /\ obs.pc0 = 65184
    /\ status = "err"

\* C21: a write of v to 0x0000..0x1FFF sets the latch that enables the
\* cartridge ram exactly when the low nibble of v is 0xA, and changes nothing
\* else of the cartridge.
RamEnableLatch ==
    [][(obs'.kind = "write" /\ In(obs'.addr, RAM_ENABLE_SELECT)) =>
           /\ obs'.res = "ok"
           /\ cart' = [cart EXCEPT !.ram_enabled = (obs'.value % 16 = 10)]]_vars

\* C22: while the latch is clear, every read and every write of
\* 0xA000..0xBFFF returns an error and leaves the cartridge ram, the clock
\* and the banking latches as they were.
DisabledRamFails ==
    [][(obs'.kind \in {"read", "write"} /\ In(obs'.addr, MMAP_RAM_BANK_SW)
          /\ ~cart.ram_enabled) =>
           /\ obs'.res = "err"
           /\ status' = "err"
           /\ cart' = cart
           /\ UNCHANGED <<cpu, bus, ram, io, joypad, timer, ppu, rom>>]_vars

\* The ram was enabled, disabled again and then written at 0xBFFF in vain.
DisabledRamFailsWitness ==
    /\ obs.kind = "write"
    /\ obs.addr = 49151
    /\ obs.ops = 3
    /\ obs.res = "err"
    /\ ~cart.ram_enabled
    /\ cart.ram = Empty

\* C23: with the ram enabled and no register of the clock mapped, a write of
\* v to an address of 0xA000..0xBFFF succeeds and a read of the address
\* returns v.
RamBankRoundTrip ==
    [][(obs'.kind = "write" /\ In(obs'.addr, MMAP_RAM_BANK_SW)
          /\ cart.ram_enabled /\ ~cart.rtc_mapped) =>
           /\ obs'.res = "ok"
           /\ ReadBus(Machine', obs'.addr) = RdOk(obs'.value)]_vars

\* C24: a write of a bank number to 0x2000..0x3FFF succeeds and leaves the
\* rom as it was; 0x4000..0x7FFF then reads the bank selected (bank 1 for
\* 0) and 0x0000..0x3FFF bank 0.
RomBankSelects ==
    [][(obs'.kind = "write" /\ In(obs'.addr, ROM_BANK_SELECT)) =>
           /\ obs'.res = "ok"
           /\ rom' = rom
           /\ \A a \in {a \in CartAddrs : In(a, MMAP_ROM_BANK0)} :
                  ReadBus(Machine', a) = RdOk(RomByte(rom, a))
           /\ \A a \in {a \in CartAddrs : In(a, MMAP_ROM_BANK_SW)} :
                  ReadBus(Machine', a) =
                      RdOk(RomByte(rom, (IF obs'.value = 0 THEN 1 ELSE obs'.value) * 16384
                                            + (a - MMAP_ROM_BANK_SW.start)))]_vars

\* The nibble of a group of four keys, the lowest being `first`: a bit is 0
\* exactly when its key is pressed.
KeyNibble(first) ==
    (IF first \in obs.pressed THEN 0 ELSE 1)
    + (IF 2 * first \in obs.pressed THEN 0 ELSE 2)
    + (IF 4 * first \in obs.pressed THEN 0 ELSE 4)
    + (IF 8 * first \in obs.pressed THEN 0 ELSE 8)

\* C25: a read of P1 returns bits 4-5 as last written and, in its low nibble,
\* the nibble of the directions when bit 4 alone is low and that of the
\* buttons when bit 5 alone is low, a bit being 0 exactly for a pressed key.
ReadsSelectedKeys ==
    obs.kind = "read" =>
        /\ obs.res = "ok"
        /\ And8(obs.got, 48) = And8(joypad.select, 48)
        /\ And8(joypad.select, 48) = 32 => obs.got % 16 = KeyNibble(1)
        /\ And8(joypad.select, 48) = 16 => obs.got % 16 = KeyNibble(16)

\* C26: a call raises the Joypad interrupt exactly when it is down() of a key
\* that was released.
RaisedOnPressAlone ==
    (obs.kind \in {"down", "up"} /\ Bit(obs.held, 4) = 0) =>
        ((Bit(joypad.interrupt_flag, 4) = 1) <=>
             (obs.kind = "down" /\ obs.key \notin obs.was))

\* C27: decoding yields a handler for every opcode but the undefined ones,
\* for 0xCB after one more byte was fetched, whatever that byte; the error
\* BadOpcode is returned for the undefined opcodes alone.
DecodeTotal ==
    obs.kind = "decode" =>
        /\ (obs.res = "BadOpcode") <=> (obs.opcode \in Undefined)
        /\ obs.opcode \notin Undefined => obs.res = "handler"
        /\ Len(obs.fetches) = IF obs.opcode = 203 THEN 1 ELSE 0

\* C28: the low nibble of F is zero in every state, and the byte PUSH AF
\* stores at the new SP has a low nibble of zero.
FlagNibbleZero ==
    /\ Get(cpu.regs, "F") % 16 = 0
    /\ (obs.kind = "push" /\ obs.reg = "AF" /\ obs.res = "ok") =>
           Load(ram, RamKey(Get(cpu.regs, "SP")), 0) % 16 = 0

\* The halves of a pair, high first; SP and PC have none.
Halves(reg) ==
    CASE reg = "AF" -> <<"A", "F">>
      [] reg = "BC" -> <<"B", "C">>
      [] reg = "DE" -> <<"D", "E">>
      [] reg = "HL" -> <<"H", "L">>
      [] OTHER -> <<>>

\* The registers a write of `reg` may change: itself, its pair, its halves.
Overlaps(reg, other) ==
    /\ GetIndex(reg) = GetIndex(other)
    /\ GetType(reg) = "Wide" \/ GetType(other) = "Wide" \/ reg = other

\* C29: after set(R, v) with v fitting R's width, get(R) is v; a pair's
\* halves read v >> 8 and v & 0xFF; and a half's write leaves the other half
\* of its pair, and every other register, as it was.
SetGetRoundTrip ==
    obs.kind = "set" =>
        /\ Get(cpu.regs, obs.reg) = obs.value
        /\ Halves(obs.reg) # <<>> =>
               /\ Get(cpu.regs, Halves(obs.reg)[1]) = obs.value \div 256
               /\ Get(cpu.regs, Halves(obs.reg)[2]) = obs.value % 256
        /\ \A other \in Registers :
               ~Overlaps(obs.reg, other) => Get(cpu.regs, other) = Get(obs.regs0, other)

\* B is written while C holds the 0x13 of reset: BC reads the new B over it.
SetGetRoundTripWitness ==
    /\ obs.kind = "set"
    /\ obs.reg = "B"
    /\ obs.value = 52
    /\ Get(obs.regs0, "BC") = 19
    /\ Get(cpu.regs, "BC") = 52 * 256 + 19

\* The bytes a stack at `sp` takes next lie in the work ram, its echo or the
\* high ram.
StackWritable(sp) == Writable(WrapSub16(sp, 1)) /\ Writable(WrapSub16(sp, 2))

\* C30: with the stack in writable memory, PUSH rr lowers SP by 2, stores the
\* high byte of rr at the old SP-1 and the low byte at the old SP-2, and
\* leaves every other byte and register alone; POP rr straight after it
\* leaves rr at the value pushed and SP where it was before the push.
PushPopRoundTrip ==
    [][/\ (obs'.kind = "push" /\ StackWritable(Get(cpu.regs, "SP"))) =>
              /\ obs'.res = "ok"
              /\ Get(cpu'.regs, "SP") = WrapSub16(Get(cpu.regs, "SP"), 2)
              /\ \A other \in Registers \ {"SP"} :
                     Get(cpu'.regs, other) = Get(cpu.regs, other)
              /\ ram' = Store(Store(ram, RamKey(WrapSub16(Get(cpu.regs, "SP"), 1)),
                                    Get(cpu.regs, obs'.reg) \div 256),
                              RamKey(WrapSub16(Get(cpu.regs, "SP"), 2)),
                              Get(cpu.regs, obs'.reg) % 256)
              /\ UNCHANGED <<bus, io, cart, joypad, timer, ppu>>
       /\ (/\ obs.kind = "push"
           /\ StackWritable(Get(obs.regs0, "SP"))
           /\ obs'.kind = "pop"
           /\ obs'.reg = obs.reg) =>
              /\ obs'.res = "ok"
              /\ Get(cpu'.regs, obs.reg) = obs.value
              /\ Get(cpu'.regs, "SP") = Get(obs.regs0, "SP")
              /\ UNCHANGED <<bus, ram, io, cart, joypad, timer, ppu>>]_vars

\* BC = 0x1234 went to a stack at 0xDFFE and came back.
PushPopRoundTripWitness ==
    /\ obs.kind = "pop"
    /\ obs.reg = "BC"
    /\ obs.ops = 3
    /\ Get(cpu.regs, "BC") = 4660
    /\ Get(cpu.regs, "SP") = 57342
    /\ Load(ram, RamKey(57341), 0) = 18
    /\ Load(ram, RamKey(57340), 0) = 52

\* C31: ADD returns (a+b) mod 256 with Z iff the result is 0, N clear, H iff
\* the low nibbles carry and C iff a+b > 255; SUB returns (a-b) mod 256 with
\* Z iff the result is 0, N set, H iff (a & 0xF) < (b & 0xF) and C iff a < b.
AddSubFlags ==
    /\ obs.kind = "add" =>
           /\ obs.got = (obs.lhs + obs.rhs) % 256
           /\ GetFlag(cpu.regs, "Z") <=> (obs.got = 0)
           /\ ~GetFlag(cpu.regs, "N")
           /\ GetFlag(cpu.regs, "H") <=> ((obs.lhs % 16) + (obs.rhs % 16) > 15)
           /\ GetFlag(cpu.regs, "C") <=> (obs.lhs + obs.rhs > 255)
    /\ obs.kind = "sub" =>
           /\ obs.got = (obs.lhs - obs.rhs) % 256
           /\ GetFlag(cpu.regs, "Z") <=> (obs.got = 0)
           /\ GetFlag(cpu.regs, "N")
           /\ GetFlag(cpu.regs, "H") <=> ((obs.lhs % 16) < (obs.rhs % 16))
           /\ GetFlag(cpu.regs, "C") <=> (obs.lhs < obs.rhs)

\* 0x3A + 0xC6: the sum is 0 with Z, H and C set.
AddSubFlagsWitness ==
    /\ obs.kind = "add"
    /\ obs.lhs = 58
    /\ obs.rhs = 198
    /\ obs.got = 0
    /\ Get(cpu.regs, "F") = 176

\* The Z, N and H an 8-bit increment or decrement of `value` leaves.
IncDecFlags(regs, kind, value) ==
    /\ GetFlag(regs, "Z") <=> (IF kind = "inc" THEN value = 255 ELSE value = 1)
    /\ GetFlag(regs, "N") <=> (kind = "dec")
    /\ GetFlag(regs, "H") <=> (IF kind = "inc" THEN value % 16 = 15 ELSE value % 16 = 0)

\* C32: an 8-bit INC or DEC, of a register or of the byte at (HL), leaves the
\* C flag as it was, for every operand and every prior state of the flags,
\* and sets Z, N and H from its result.
IncDecKeepsCarry ==
    (obs.kind \in {"inc", "dec"} /\ obs.res \in {"ok", "err"}) =>
        /\ GetFlag(cpu.regs, "C") <=> GetFlag(obs.regs0, "C")
        /\ (obs.res = "ok" /\ obs.arg # "(HL)") =>
               IncDecFlags(cpu.regs, obs.kind, Get(obs.regs0, obs.arg))
        /\ (obs.res = "ok" /\ obs.arg = "(HL)" /\ Get(obs.regs0, "HL") = 49152) =>
               IncDecFlags(cpu.regs, obs.kind, obs.v)

\* B = 0xFF is incremented with the carry clear: B is 0, Z and H are set and
\* the carry the addition produced is not kept.
IncDecKeepsCarryWitness ==
    /\ obs.kind = "inc"
    /\ obs.arg = "B"
    /\ Get(obs.regs0, "B") = 255
    /\ ~GetFlag(obs.regs0, "C")
    /\ Get(cpu.regs, "B") = 0
    /\ Get(cpu.regs, "F") = 160

\* C33: a fetch of k bytes (k = 1 or 2), no halt bug pending, returns the
\* bytes at PC .. PC+k-1 with the first byte least significant and leaves PC
\* at (PC + k) mod 65536, at PC = 0xFFFF as well.
FetchWraps ==
    obs.kind = "fetch" =>
        /\ obs.res = "ok"
        /\ obs.got = IF obs.arg = 1 THEN obs.v ELSE obs.v + 256 * obs.w
        /\ Get(cpu.regs, "PC") = (Get(obs.regs0, "PC") + obs.arg) % 65536

\* The operand `n` of jr as the signed byte it stands for.
Signed(n) == IF n >= 128 THEN n - 256 ELSE n

\* C34: JR n sets PC to (the address after the operand + n as a signed byte)
\* mod 65536, so that JR 0xFE at p leaves PC at p, and changes no other
\* register.
JrTarget ==
    obs.kind = "jr" =>
        /\ obs.res = "ok"
        /\ Get(cpu.regs, "PC") = (Get(obs.regs0, "PC") + 1 + Signed(obs.v)) % 65536
        /\ obs.v = 254 => Get(cpu.regs, "PC") = (Get(obs.regs0, "PC") - 1) % 65536
        /\ \A other \in Registers \ {"PC"} : Get(cpu.regs, other) = Get(obs.regs0, other)

\* C40: LD HL,SP+n that returns sets HL to (SP + n as a signed byte) mod
\* 65536, leaves SP as it was and leaves Z and N clear.
LdHlSigned ==
    (obs.kind = "ldhl" /\ obs.res = "ok") =>
        /\ Get(cpu.regs, "HL") = (Get(obs.regs0, "SP") + Signed(obs.v)) % 65536
        /\ Get(cpu.regs, "SP") = Get(obs.regs0, "SP")
        /\ ~GetFlag(cpu.regs, "Z")
        /\ ~GetFlag(cpu.regs, "N")

RenderLineIndices(ly) == {ly * 160 + x : x \in 0..159}

\* C37: at every step boundary LY is in 0..153, the mode is Vblank iff
\* LY >= 144 and bits 0-1 of STAT encode the mode (Hblank 0, Vblank 1,
\* SearchOAM 2, RenderLine 3); so a line is rendered with LY <= 143 only, and
\* every index of the frame buffer it writes is below 160 * 144.
PpuModeInvariant ==
    /\ ppu.ly \in 0..153
    /\ ppu.mode = "Vblank" <=> ppu.ly >= 144
    /\ StatRead(ppu) % 4 = CASE ppu.mode = "Hblank" -> 0
                              [] ppu.mode = "Vblank" -> 1
                              [] ppu.mode = "SearchOam" -> 2
                              [] ppu.mode = "RenderLine" -> 3
    /\ ppu.mode = "RenderLine" =>
           /\ ppu.ly <= 143
           /\ \A index \in RenderLineIndices(ppu.ly) : index < 160 * 144

\* The last visible line is being rendered in the second frame, after LY
\* went through 153 and back to 0.
PpuModeInvariantWitness ==
    /\ ppu.ly = 143
    /\ ppu.mode = "RenderLine"
    /\ StatRead(ppu) % 4 = 3
    /\ obs.elapsed > FrameCycles

\* C38: in every state bit 2 of a read of STAT is set iff LY = LYC, right
\* after power-on (LY = LYC = 0) included.
CoincidenceBit ==
    Bit(StatRead(ppu), 2) = 1 <=> ppu.ly = ppu.lyc

\* The CPU is halted with the LCD on and the V-Blank interrupt enabled.
HaltedForVblank ==
    /\ status = "ok"
    /\ cpu.halting
    /\ And8(ppu.lcdc, 128) # 0
    /\ Bit(bus.interrupt_enable, 0) = 1

HaltStepRuns ==
    Execute(Machine).res # "unmodelled"

====
